---- MODULE Spec2Model ----
(***************************************************************************)
(* Model of the obsidian-installation-manager core (lib/src/lib.rs):       *)
(* the InstallationManager, its release selection, version comparison,     *)
(* download / extract / service steps and the progress events it emits.    *)
(*                                                                         *)
(* Strings are sequences of one-character strings, so that trimming,       *)
(* parsing, lower-casing and substring search are computed, not assumed.   *)
(* Progress fractions (f32 in the source) are integers in hundredths.      *)
(* The per-OS ServiceController (mod nix / mod win) is not part of the     *)
(* sources at hand; it is modelled from section 4.6 of the specification.  *)
(***************************************************************************)
EXTENDS Integers, Sequences, FiniteSets, TLC

(***************************************************************************)
(* Bounds of the model                                                     *)
(***************************************************************************)
\* largest number of bytes one read of the download stream returns
MaxChunk == 2
\* largest number of bytes a download stream delivers before it ends
MaxBytes == 2
\* largest number of assets of a release handed to select_asset directly
MaxAssets == 2
\* largest number of entries of a zip archive
MaxEntries == 2

\* the events the publisher sends at most
MaxEvents == 130

\* how far outside [0, 1] the values handed to StateProgress::new lie, in
\* hundredths
MaxOver == 10

(***************************************************************************)
(* Option values                                                           *)
(***************************************************************************)
None == [some |-> FALSE]

Some(x) == [some |-> TRUE, val |-> x]

(***************************************************************************)
(* Characters and strings                                                  *)
(***************************************************************************)
DigitChars == <<"0", "1", "2", "3", "4", "5", "6", "7", "8", "9">>

UpperChars == <<"A", "B", "C", "D", "E", "F", "G", "H", "I", "J", "K", "L", "M",
                "N", "O", "P", "Q", "R", "S", "T", "U", "V", "W", "X", "Y", "Z">>

LowerChars == <<"a", "b", "c", "d", "e", "f", "g", "h", "i", "j", "k", "l", "m",
                "n", "o", "p", "q", "r", "s", "t", "u", "v", "w", "x", "y", "z">>

\* the characters of the model in ASCII order ('+' is left out: no tag of
\* the model carries build metadata)
AsciiOrder == <<"-", ".">> \o DigitChars \o UpperChars \o <<"_">> \o LowerChars

Range(s) == {s[i] : i \in 1..Len(s)}

IndexIn(s, c) == CHOOSE i \in 1..Len(s) : s[i] = c

IsDigit(c) == c \in Range(DigitChars)

IsIdentChar(c) == c \in Range(DigitChars) \cup Range(UpperChars) \cup Range(LowerChars) \cup {"-"}

DigitVal(c) == IndexIn(DigitChars, c) - 1

CharOrd(c) == IndexIn(AsciiOrder, c)

\* str::to_lowercase, character by character
LowerChar(c) == IF c \in Range(UpperChars) THEN LowerChars[IndexIn(UpperChars, c)] ELSE c

to_lowercase(s) == [i \in 1..Len(s) |-> LowerChar(s[i])]

\* str::contains(pattern)
contains(s, p) ==
  \E i \in 0..(Len(s) - Len(p)) : \A j \in 1..Len(p) : s[i + j] = p[j]

\* str::ends_with(suffix)
ends_with(s, suf) ==
  /\ Len(suf) <= Len(s)
  /\ \A j \in 1..Len(suf) : s[Len(s) - Len(suf) + j] = suf[j]

\* str::trim_start_matches(c): every leading occurrence of c is removed
RECURSIVE trim_start_matches(_, _)
trim_start_matches(s, c) ==
  IF s # <<>> /\ Head(s) = c THEN trim_start_matches(Tail(s), c) ELSE s

\* index of the first occurrence of c in s, 0 when there is none
FirstIndex(s, c) ==
  IF c \in Range(s) THEN CHOOSE i \in 1..Len(s) : s[i] = c /\ \A j \in 1..(i - 1) : s[j] # c
  ELSE 0

\* s split at every occurrence of c
RECURSIVE SplitOn(_, _)
SplitOn(s, c) ==
  LET i == FirstIndex(s, c)
  IN IF i = 0 THEN <<s>>
     ELSE <<SubSeq(s, 1, i - 1)>> \o SplitOn(SubSeq(s, i + 1, Len(s)), c)

(***************************************************************************)
(* semver::Version: parsing and total order                                *)
(***************************************************************************)
RECURSIVE DecimalValue(_)
DecimalValue(s) ==
  IF s = <<>> THEN 0 ELSE 10 * DecimalValue(SubSeq(s, 1, Len(s) - 1)) + DigitVal(s[Len(s)])

AllDigits(s) == \A i \in 1..Len(s) : IsDigit(s[i])

\* a numeric component: digits only, not empty, no leading zero
IsNumeric(s) == s # <<>> /\ AllDigits(s) /\ (Len(s) > 1 => s[1] # "0")

\* a pre-release identifier: [0-9A-Za-z-]+, numeric ones without leading zero
IsPreIdent(s) ==
  /\ s # <<>>
  /\ \A i \in 1..Len(s) : IsIdentChar(s[i])
  /\ AllDigits(s) => IsNumeric(s)

\* Version::parse: MAJOR.MINOR.PATCH with an optional -PRERELEASE
Version_parse(text) ==
  LET dash == FirstIndex(text, "-")
      core == IF dash = 0 THEN text ELSE SubSeq(text, 1, dash - 1)
      pre  == IF dash = 0 THEN <<>> ELSE SplitOn(SubSeq(text, dash + 1, Len(text)), ".")
      nums == SplitOn(core, ".")
  IN IF /\ Len(nums) = 3
        /\ \A i \in 1..3 : IsNumeric(nums[i])
        /\ \A i \in 1..Len(pre) : IsPreIdent(pre[i])
     THEN Some([major |-> DecimalValue(nums[1]), minor |-> DecimalValue(nums[2]),
                patch |-> DecimalValue(nums[3]), pre |-> pre])
     ELSE None

\* lexical (ASCII) order of two strings
RECURSIVE StrLess(_, _)
StrLess(a, b) ==
  IF b = <<>> THEN FALSE
  ELSE IF a = <<>> THEN TRUE
  ELSE IF Head(a) # Head(b) THEN CharOrd(Head(a)) < CharOrd(Head(b))
  ELSE StrLess(Tail(a), Tail(b))

\* order of two pre-release identifiers: numeric ones compare as numbers
\* and sort below alphanumeric ones, which compare in ASCII order
IdentLess(a, b) ==
  IF AllDigits(a) /\ AllDigits(b) THEN DecimalValue(a) < DecimalValue(b)
  ELSE IF AllDigits(a) THEN TRUE
  ELSE IF AllDigits(b) THEN FALSE
  ELSE StrLess(a, b)

\* order of two pre-release lists; the empty list (a release) is the largest
RECURSIVE PreLess(_, _)
PreLess(a, b) ==
  IF a = <<>> THEN FALSE
  ELSE IF b = <<>> THEN TRUE
  ELSE IF Head(a) # Head(b) THEN IdentLess(Head(a), Head(b))
  ELSE IF Len(a) = 1 THEN Len(b) > 1
  ELSE IF Len(b) = 1 THEN FALSE
  ELSE PreLess(Tail(a), Tail(b))

\* a < b in the semantic-version order (impl Ord for Version)
VersionLess(a, b) ==
  IF a.major # b.major THEN a.major < b.major
  ELSE IF a.minor # b.minor THEN a.minor < b.minor
  ELSE IF a.patch # b.patch THEN a.patch < b.patch
  ELSE PreLess(a.pre, b.pre)

(***************************************************************************)
(* Results of fallible calls (anyhow::Result)                              *)
(***************************************************************************)
Ok(x) == [ok |-> TRUE, val |-> x]

Err(e) == [ok |-> FALSE, err |-> e]

(***************************************************************************)
(* Architecture                                                            *)
(***************************************************************************)
\* Architecture::detect on the (OS, ARCH) pair of the build
detect(os, cpu) ==
  CASE os = "windows" /\ cpu = "x86_64"  -> Ok("WindowsX64")
    [] os = "windows" /\ cpu = "aarch64" -> Ok("WindowsArm64")
    [] os = "linux"   /\ cpu = "x86_64"  -> Ok("LinuxX64")
    [] os = "linux"   /\ cpu = "aarch64" -> Ok("LinuxArm64")
    [] os = "macos"   /\ cpu = "x86_64"  -> Ok("MacOSX64")
    [] os = "macos"   /\ cpu = "aarch64" -> Ok("MacOSArm64")
    [] OTHER -> Err("UnsupportedPlatform")

P_windows == <<"w", "i", "n", "d", "o", "w", "s">>
P_win     == <<"w", "i", "n">>
P_linux   == <<"l", "i", "n", "u", "x">>
P_macos   == <<"m", "a", "c", "o", "s">>
P_darwin  == <<"d", "a", "r", "w", "i", "n">>
P_x64     == <<"x", "6", "4">>
P_x86_64  == <<"x", "8", "6", "_", "6", "4">>
P_amd64   == <<"a", "m", "d", "6", "4">>
P_arm64   == <<"a", "r", "m", "6", "4">>
P_aarch64 == <<"a", "a", "r", "c", "h", "6", "4">>

\* Architecture::asset_patterns
asset_patterns(arch) ==
  CASE arch = "WindowsX64"   -> <<P_windows, P_win, P_x64, P_x86_64, P_amd64>>
    [] arch = "WindowsArm64" -> <<P_windows, P_win, P_arm64, P_aarch64>>
    [] arch = "LinuxX64"     -> <<P_linux, P_x64, P_x86_64, P_amd64>>
    [] arch = "LinuxArm64"   -> <<P_linux, P_arm64, P_aarch64>>
    [] arch = "MacOSX64"     -> <<P_macos, P_darwin, P_x64, P_x86_64>>
    [] arch = "MacOSArm64"   -> <<P_macos, P_darwin, P_arm64, P_aarch64>>

(***************************************************************************)
(* Asset selection                                                         *)
(***************************************************************************)
\* number of patterns the lower-cased asset name contains
match_count(name, patterns) ==
  Cardinality({i \in 1..Len(patterns) : contains(to_lowercase(name), patterns[i])})

\* the first of a set of positions of a list, 0 when the set is empty
FirstOf(positions) ==
  IF positions = {} THEN 0 ELSE CHOOSE i \in positions : \A j \in positions : i <= j

\* select_asset that returns the first asset matching any pattern
select_asset_any_match(rel, os, cpu) ==
  LET arch == detect(os, cpu)
  IN IF ~arch.ok THEN arch
     ELSE LET patterns == asset_patterns(arch.val)
              i1 == FirstOf({i \in 1..Len(rel.assets) :
                              match_count(rel.assets[i].name, patterns) >= 1})
          IN IF i1 # 0 THEN Ok(rel.assets[i1]) ELSE Err("NoMatchingAsset")

\* InstallationManager::select_asset on the build's (OS, ARCH)
select_asset(rel, os, cpu) ==
  LET arch == detect(os, cpu)
  IN IF ~arch.ok THEN arch
     ELSE LET patterns == asset_patterns(arch.val)
              at == 1..Len(rel.assets)
              i2 == FirstOf({i \in at : match_count(rel.assets[i].name, patterns) >= 2})
              i1 == FirstOf({i \in at : match_count(rel.assets[i].name, patterns) >= 1})
          IN IF i2 # 0 THEN Ok(rel.assets[i2])
             ELSE IF i1 # 0 THEN Ok(rel.assets[i1])
             ELSE Err("NoMatchingAsset")

(***************************************************************************)
(* Release selection                                                       *)
(***************************************************************************)
\* find_latest that takes the first release whatever its prerelease flag
find_latest_any(rels, include_prerelease) ==
  IF rels = <<>> THEN None ELSE Some(rels[1])

\* the find(|r| include_prerelease || !r.prerelease) of get_latest_release
find_latest(rels, include_prerelease) ==
  LET i == FirstOf({j \in 1..Len(rels) : include_prerelease \/ ~rels[j].prerelease})
  IN IF i = 0 THEN None ELSE Some(rels[i])

\* the version of a release tag: trim_start_matches('v'), then Version::parse
tag_version(tag) == Version_parse(trim_start_matches(tag, "v"))

\* update_available with "not lower" in place of "strictly greater"
update_available_not_lower(latest, current) ==
  IF current.some THEN ~VersionLess(latest, current.val) ELSE TRUE

\* update_available that reports an update whatever is installed
update_available_always(latest, current) == TRUE

\* the comparison check_for_updates returns
update_available(latest, current) ==
  IF current.some THEN VersionLess(current.val, latest) ELSE TRUE

(***************************************************************************)
(* Progress events                                                         *)
(***************************************************************************)
\* f32 values are counted in hundredths; NaN is the one f32 that is no
\* number, written as a value no computation of the manager yields
NaN == 0 - 1000000

\* the comparisons of f32: every comparison with NaN is false
f32_lt(a, b) == a # NaN /\ b # NaN /\ a < b

f32_gt(a, b) == a # NaN /\ b # NaN /\ a > b

\* f32::clamp(0.0, 1.0), in hundredths: a value below the range becomes
\* 0, a value above it 1; NaN passes both comparisons and is returned
clamp(p) ==
  LET x == IF f32_lt(p, 0) THEN 0 ELSE p
  IN IF f32_gt(x, 100) THEN 100 ELSE x

\* the State enum
States == {"Downloading", "Extracting", "Installing", "Updating"}

\* StateProgress::new
StateProgress_new(state, progress) ==
  [kind |-> "progress", state |-> state, progress |-> clamp(progress)]

\* broadcast_progress: the event is appended to the record of what was
\* published; sending never fails the caller
broadcast_progress(tr, state, progress) == Append(tr, StateProgress_new(state, progress))

\* a call of a collaborator, recorded with its outcome
Called(tr, name, ok) == Append(tr, [kind |-> "call", name |-> name, ok |-> ok])

\* a call recorded with the value it was given or returned
CalledWith(tr, name, ok, val) ==
  Append(tr, [kind |-> "call", name |-> name, ok |-> ok, val |-> val])

(***************************************************************************)
(* ServiceController (section 4.6 of the specification)                    *)
(***************************************************************************)
\* install_service: NotInstalled -> Installed(Stopped), or no change of an
\* installed service; the version marker records the release tag
svc_install_service(svc, tag) ==
  [service |-> IF svc = "NotInstalled" THEN "Stopped" ELSE svc, marker |-> Some(tag)]

\* start_service / stop_service toggle an installed service
svc_start_service(svc) == "Running"

svc_stop_service(svc) == "Stopped"

\* uninstall_service: back to NotInstalled, the version marker is removed
svc_uninstall_service == [service |-> "NotInstalled", marker |-> None]

\* get_installed_version: absent when there is no marker
get_installed_version(mk) == IF mk.some THEN tag_version(mk.val) ELSE None

\* start and stop need an installed service
svc_can_toggle(svc) == svc # "NotInstalled"

(***************************************************************************)
(* The releases the host may publish                                       *)
(***************************************************************************)
N_app == <<"a", "p", "p", "-">>

X_tar_gz == <<".", "t", "a", "r", ".", "g", "z">>
X_tgz    == <<".", "t", "g", "z">>
X_zip    == <<".", "z", "i", "p">>
X_deb    == <<".", "d", "e", "b">>

\* app-linux-x64.tar.gz, 2 bytes declared
A_linux == [name |-> N_app \o P_linux \o <<"-">> \o P_x64 \o X_tar_gz, size |-> 2]

\* App-Linux-AMD64.zip, declared size unknown (0)
A_linux_zip ==
  [name |-> <<"A", "p", "p", "-", "L", "i", "n", "u", "x", "-", "A", "M", "D", "6", "4">>
            \o X_zip,
   size |-> 0]

\* App-Windows-x64.zip
A_windows ==
  [name |-> <<"A", "p", "p", "-", "W", "i", "n", "d", "o", "w", "s", "-">> \o P_x64 \o X_zip,
   size |-> 2]

\* app-macos-arm64.zip
A_macos == [name |-> N_app \o P_macos \o <<"-">> \o P_arm64 \o X_zip, size |-> 2]

\* app-darwin-x64.zip
A_darwin == [name |-> N_app \o P_darwin \o <<"-">> \o P_x64 \o X_zip, size |-> 2]

\* app-linux-arm64.tar.gz
A_linux_arm == [name |-> N_app \o P_linux \o <<"-">> \o P_arm64 \o X_tar_gz, size |-> 2]

\* notes.txt: a file for no platform
A_notes == [name |-> <<"n", "o", "t", "e", "s", ".", "t", "x", "t">>, size |-> 1]

\* app-linux-x64.deb: not an archive the extractor knows, 1 byte declared
A_deb == [name |-> N_app \o P_linux \o <<"-">> \o P_x64 \o X_deb, size |-> 1]

T_v2_0_0    == <<"v", "2", ".", "0", ".", "0">>
T_v1_5_0    == <<"v", "1", ".", "5", ".", "0">>
T_1_0_0     == <<"1", ".", "0", ".", "0">>
T_v2_0_0_rc == <<"v", "2", ".", "0", ".", "0", "-", "r", "c", ".", "1">>
T_latest    == <<"l", "a", "t", "e", "s", "t">>

GitHubRelease(tag, prerelease, assets) ==
  [tag_name |-> tag, prerelease |-> prerelease, assets |-> assets]

\* v2.0.0 with a tar.gz for linux
R_2_0_0      == GitHubRelease(T_v2_0_0, FALSE, <<A_windows, A_linux>>)
\* 1.0.0 with a zip for linux
R_1_0_0      == GitHubRelease(T_1_0_0, FALSE, <<A_linux_zip, A_windows>>)
\* a pre-release whose linux asset is a .deb
R_2_0_rc     == GitHubRelease(T_v2_0_0_rc, TRUE, <<A_windows, A_deb>>)
\* a pre-release whose tag is not a version
R_latest     == GitHubRelease(T_latest, TRUE, <<A_windows, A_linux>>)
\* a pre-release with no asset for linux
R_2_0_rc_mac == GitHubRelease(T_v2_0_0_rc, TRUE, <<A_macos>>)

\* the release lists the host serves, in the order the host gives them;
\* the last one holds no release unless pre-releases are wanted
ReleaseLists ==
  { <<R_2_0_rc, R_2_0_0>>, <<R_latest, R_1_0_0>>, <<R_2_0_rc_mac>> }

\* the tags a version marker left by an earlier process may hold
MarkerTags == {T_v1_5_0}

\* the builds of the model: one that has a ServiceController
\* (cfg(target_os = "linux"); the windows build runs the same statements)
Platforms == {[os |-> "linux", cpu |-> "x86_64"]}

\* every (OS, ARCH) pair Architecture::detect knows, and one it does not
AllPlatforms ==
  [os : {"windows", "linux", "macos"}, cpu : {"x86_64", "aarch64"}]
    \cup {[os |-> "freebsd", cpu |-> "x86_64"]}

\* the assets a release handed to select_asset may list
AssetPool == {A_windows, A_linux, A_macos, A_darwin, A_linux_arm, A_notes}

AssetLists == UNION {[1..n -> AssetPool] : n \in 0..MaxAssets}

\* the file names extract_archive may be handed
F_tar_gz  == <<"a">> \o X_tar_gz
F_tgz     == <<"a">> \o X_tgz
F_zip     == <<"a">> \o X_zip
F_deb     == <<"a">> \o X_deb
F_zip_sig == <<"a">> \o X_zip \o <<".", "s", "i", "g">>
F_ZIP     == <<"a", ".", "Z", "I", "P">>
F_bare    == <<"z", "i", "p">>
F_tar     == <<"a", ".", "t", "a", "r">>
F_gz      == <<"a", ".", "g", "z">>

ArchiveNames == {F_tar_gz, F_tgz, F_zip, F_deb, F_zip_sig, F_ZIP, F_bare, F_tar, F_gz}

(***************************************************************************)
(* Zip archives                                                            *)
(***************************************************************************)
\* an entry of a zip archive: the components of its stored path, whether
\* the path starts at the root, whether the name ends with '/'
ZipEntry(path, rooted, dir) == [path |-> path, rooted |-> rooted, dir |-> dir]

\* bin/app
E_bin_app == ZipEntry(<<"bin", "app">>, FALSE, FALSE)
\* bin/
E_bin     == ZipEntry(<<"bin">>, FALSE, TRUE)
\* ../../evil.txt
E_evil    == ZipEntry(<<"..", "..", "evil.txt">>, FALSE, FALSE)
\* lib/../../evil.txt
E_sneaky  == ZipEntry(<<"lib", "..", "..", "evil.txt">>, FALSE, FALSE)
\* /etc/passwd
E_rooted  == ZipEntry(<<"etc", "passwd">>, TRUE, FALSE)
\* ./lib/../readme
E_back    == ZipEntry(<<".", "lib", "..", "readme">>, FALSE, FALSE)
\* ../
E_up      == ZipEntry(<<"..">>, FALSE, TRUE)

EntryPool == {E_bin_app, E_bin, E_evil, E_sneaky, E_rooted, E_back, E_up}

Archives == UNION {[1..n -> EntryPool] : n \in 0..MaxEntries}

\* ZipFile::enclosed_name walks the components: a root, or a ".." that
\* climbs above the start, makes the name unusable
RECURSIVE stays_enclosed(_, _)
stays_enclosed(path, depth) ==
  IF path = <<>> THEN TRUE
  ELSE IF Head(path) = ".." THEN depth > 0 /\ stays_enclosed(Tail(path), depth - 1)
  ELSE IF Head(path) = "." THEN stays_enclosed(Tail(path), depth)
  ELSE stays_enclosed(Tail(path), depth + 1)

\* enclosed_name that accepts every stored path
enclosed_name_any(e) == Some(e)

\* ZipFile::enclosed_name
enclosed_name(e) == IF e.rooted \/ ~stays_enclosed(e.path, 0) THEN None ELSE Some(e)

\* a place in the file system seen from extract_to: under the root when the
\* path was absolute, else 'up' directories above extract_to and then down
Place(rooted, up, down) == [rooted |-> rooted, up |-> up, down |-> down]

\* where the file system takes a path from a place
RECURSIVE walk(_, _)
walk(path, at) ==
  IF path = <<>> THEN at
  ELSE LET c == Head(path)
           to == IF c = "." THEN at
                 ELSE IF c # ".." THEN [at EXCEPT !.down = Append(@, c)]
                 ELSE IF at.down # <<>>
                 THEN [at EXCEPT !.down = SubSeq(@, 1, Len(@) - 1)]
                 ELSE IF at.rooted THEN at
                 ELSE [at EXCEPT !.up = @ + 1]
       IN walk(Tail(path), to)

\* extract_to.join(path): an absolute path replaces extract_to
join(e) == walk(e.path, Place(e.rooted, 0, <<>>))

\* the places create_dir_all and File::create make on the way to join(e)
places_made(e) ==
  {walk(SubSeq(e.path, 1, k), Place(e.rooted, 0, <<>>)) : k \in 1..Len(e.path)}
    \ {Place(FALSE, 0, <<>>)}

(***************************************************************************)
(* The broadcast channel                                                   *)
(***************************************************************************)
\* the subscribers the model follows
Subscribers == {"ui"}

\* the cursor of a handle that is not subscribed
NotSubscribed == 0 - 1

\* the capacity InstallationManager::new asks the channel for
Capacity == 100

\* usize::next_power_of_two: the smallest power of two that is at least n
RECURSIVE next_power_of_two_from(_, _)
next_power_of_two_from(p, n) == IF p >= n THEN p ELSE next_power_of_two_from(2 * p, n)

next_power_of_two(n) == next_power_of_two_from(1, n)

\* broadcast::channel(capacity) rounds the capacity up to a power of two
\* and allocates that many slots ("the actual capacity may be greater
\* than the provided capacity")
buffer_len == next_power_of_two(Capacity)

\* broadcast::channel(100): nothing sent, the first receiver dropped
NewChannel == [sent |-> 0]

\* Receiver::recv with the cursor at next and the sender at tail: the
\* receiver has lagged when its slot was overwritten, and is then moved to
\* the oldest value still held; otherwise it takes the next value, if any
recv_ref(next, tail) ==
  IF tail - next > buffer_len
  THEN [kind |-> "Lagged", missed |-> tail - buffer_len - next, next |-> tail - buffer_len]
  ELSE IF next = tail
  THEN [kind |-> "Empty", missed |-> 0, next |-> next]
  ELSE [kind |-> "Value", missed |-> 0, next |-> next + 1]

NoReceivers == [s \in Subscribers |-> NotSubscribed]

(***************************************************************************)
(* The installer wizard                                                    *)
(***************************************************************************)
\* InstallerState::default; progress is counted in ten-thousandths
InstallerState_default ==
  [status |-> "Preparing installation...", progress |-> 0, completed |-> FALSE,
   success |-> FALSE, message |-> ""]

\* no task of the wizard is spawned before the installation is started;
\* install_as_service is the argument the installing task is given
NoTasks ==
  [install |-> "none", listener |-> "none", monitor |-> "none",
   install_as_service |-> FALSE]

\* the window while the installation page is shown
NewUi ==
  [page |-> "Installing", install_status |-> "", install_progress |-> 0,
   install_success |-> FALSE]

\* update_progress_state: the status text and the share of the bar that
\* belong to the phase of the event; an event's progress is in hundredths
update_progress_state(s, event) ==
  CASE event.state = "Downloading" ->
         [s EXCEPT !.status = "Downloading application files...",
                   !.progress = 2000 + event.progress * 40]
    [] event.state = "Extracting" ->
         [s EXCEPT !.status = "Extracting files...",
                   !.progress = 6000 + event.progress * 20]
    [] event.state = "Installing" ->
         [s EXCEPT !.status = "Installing service...",
                   !.progress = 8000 + event.progress * 15]
    [] event.state = "Updating" ->
         [s EXCEPT !.status = "Updating...",
                   !.progress = 5000 + event.progress * 50]

(***************************************************************************)
(* State                                                                   *)
(***************************************************************************)
VARIABLES
  is_installed,     \* InstallationManager.is_installed
  current_version,  \* InstallationManager.current_version
  latest_version,   \* InstallationManager.latest_version
  platform,         \* std::env::consts::OS / ARCH of the build
  releases,         \* what the host's release listing currently returns
  service,          \* the OS service: NotInstalled, Stopped or Running
  marker,           \* the persisted version marker (a release tag)
  install_dir,      \* config.install_path: absent, empty, partial or full
  temp_files,       \* names of the files in the temporary download directory
  pc,               \* position of the running operation, or idle / aborted
  stack,            \* positions the nested calls return to
  op,               \* the public operation called and its argument
  release,          \* local: the release get_latest_release returned
  asset,            \* local: the asset select_asset returned
  downloaded,       \* local: bytes written by download_asset
  has_update,       \* local: what check_for_updates returned
  result,           \* what the last operation returned to its caller
  trace,            \* collaborator calls and progress events of the operation
  pre,              \* manager, platform and files as the operation found them
  archive,          \* extract_zip: the entries of the zip archive being read
  entry,            \* extract_zip: the number of entries gone through
  unpacked,         \* extract_zip: the places where files and directories were made
  progress_tx,      \* the broadcast channel: events sent, events still held
  receivers,        \* the cursor of every live subscriber of the channel
  installer_state,            \* the wizard's shared InstallerState
  tasks,            \* the wizard's tasks: where each of them stands
  progress_rx,      \* the wizard's receiver: the events its listener has taken
  ui                \* what the wizard's window shows

manager == <<is_installed, current_version, latest_version>>

controller == <<service, marker>>

files == <<install_dir, temp_files>>

locals == <<release, asset, downloaded, has_update>>

unpacking == <<archive, entry, unpacked>>

channel == <<progress_tx, receivers>>

app == <<installer_state, tasks, progress_rx, ui>>

\* what no operation of the manager changes
untouched == <<platform, unpacking, channel, app>>

vars == <<is_installed, current_version, latest_version, platform, releases, service,
          marker, install_dir, temp_files, pc, stack, op, release, asset, downloaded,
          has_update, result, trace, pre, archive, entry, unpacked, progress_tx,
          receivers, installer_state, tasks, progress_rx, ui>>

Ret(status, val) == [status |-> status, val |-> val]

Snapshot ==
  [is_installed |-> is_installed, current_version |-> current_version,
   latest_version |-> latest_version, service |-> service, marker |-> marker,
   install_dir |-> install_dir, temp_files |-> temp_files]

\* InstallationManager::new: nothing installed, no versions known.  The
\* platform may hold a service and marker left by an earlier process.
Init ==
  /\ is_installed = FALSE
  /\ current_version = None
  /\ latest_version = None
  /\ platform \in Platforms
  /\ releases \in ReleaseLists
  /\ \/ service = "NotInstalled" /\ marker = None /\ install_dir \in {"absent", "full"}
     \/ service \in {"Stopped", "Running"} /\ marker \in {Some(t) : t \in MarkerTags}
        /\ install_dir = "full"
  /\ temp_files = {}
  /\ pc = "idle"
  /\ stack = <<>>
  /\ op = [name |-> "none", include_prerelease |-> FALSE]
  /\ release = None
  /\ asset = None
  /\ downloaded = 0
  /\ has_update = FALSE
  /\ result = Ret("none", "none")
  /\ trace = <<>>
  /\ pre = Snapshot
  /\ archive = <<>> /\ entry = 0 /\ unpacked = {}
  /\ progress_tx = NewChannel /\ receivers = NoReceivers
  /\ installer_state = InstallerState_default /\ tasks = NoTasks /\ progress_rx = 0 /\ ui = NewUi

(***************************************************************************)
(* Entering and leaving an operation                                       *)
(***************************************************************************)
\* a public method is called on the idle manager
Begin(name, include_prerelease) ==
  /\ pc = "idle"
  /\ op' = [name |-> name, include_prerelease |-> include_prerelease]
  /\ pre' = Snapshot
  /\ release' = None
  /\ asset' = None
  /\ downloaded' = 0
  /\ has_update' = FALSE

\* an error leaves every enclosing call ('?' and bail!)
Fail(kind) ==
  /\ pc' = "idle"
  /\ stack' = <<>>
  /\ result' = Ret("err", kind)

\* a call returns Ok: to its caller's next position, or to the user
Return(val) ==
  IF stack = <<>>
  THEN pc' = "idle" /\ stack' = stack /\ result' = Ret("ok", val)
  ELSE pc' = Head(stack) /\ stack' = Tail(stack) /\ result' = result

\* a panic unwinds out of the manager
Panic(what) ==
  /\ pc' = "aborted"
  /\ stack' = <<>>
  /\ result' = Ret("panic", what)

(***************************************************************************)
(* get_latest_release and check_for_updates                                *)
(***************************************************************************)
\* get_latest_release that forgets latest_version when the tag does not
\* parse
get_latest_release_forgetting ==
  /\ pc = "get_latest_release"
  /\ \E fetched \in BOOLEAN :
       LET latest  == find_latest(releases, op.include_prerelease)
           version == IF latest.some THEN tag_version(latest.val.tag_name) ELSE None
           tr      == Called(trace, "fetch_releases", fetched)
       IN IF ~fetched
          THEN /\ Fail("NetworkError")
               /\ trace' = Called(tr, "latest_release", FALSE)
               /\ UNCHANGED <<latest_version, release>>
          ELSE IF ~latest.some
          THEN /\ Fail("NoReleaseFound")
               /\ trace' = Called(tr, "latest_release", FALSE)
               /\ UNCHANGED <<latest_version, release>>
          ELSE IF ~version.some
          THEN /\ Fail("VersionParseError")
               /\ trace' = Called(tr, "latest_release", FALSE)
               /\ latest_version' = None
               /\ UNCHANGED release
          ELSE /\ latest_version' = version
               /\ release' = latest
               /\ trace' = Called(tr, "latest_release", TRUE)
               /\ Return("release")
  /\ UNCHANGED <<is_installed, current_version, untouched, releases, controller, files,
                 op, asset, downloaded, has_update, pre>>

\* get_latest_release: fetch, pick the first wanted release, parse its tag
\* and remember it as latest_version
get_latest_release ==
  /\ pc = "get_latest_release"
  /\ \E fetched \in BOOLEAN :
       LET latest  == find_latest(releases, op.include_prerelease)
           version == IF latest.some THEN tag_version(latest.val.tag_name) ELSE None
           tr      == Called(trace, "fetch_releases", fetched)
       IN IF ~fetched
          THEN /\ Fail("NetworkError")
               /\ trace' = Called(tr, "latest_release", FALSE)
               /\ UNCHANGED <<latest_version, release>>
          ELSE IF ~latest.some
          THEN /\ Fail("NoReleaseFound")
               /\ trace' = Called(tr, "latest_release", FALSE)
               /\ UNCHANGED <<latest_version, release>>
          ELSE IF ~version.some
          THEN /\ Fail("VersionParseError")
               /\ trace' = Called(tr, "latest_release", FALSE)
               /\ UNCHANGED <<latest_version, release>>
          ELSE /\ latest_version' = version
               /\ release' = latest
               /\ trace' = Called(tr, "latest_release", TRUE)
               /\ Return("release")
  /\ UNCHANGED <<is_installed, current_version, untouched, releases, controller, files,
                 op, asset, downloaded, has_update, pre>>

\* check_for_updates is called
call_check_for_updates ==
  /\ \E include_prerelease \in BOOLEAN : Begin("check_for_updates", include_prerelease)
  /\ pc' = "get_latest_release"
  /\ stack' = <<"check_for_updates">>
  /\ result' = Ret("running", "none")
  /\ trace' = <<>>
  /\ UNCHANGED <<manager, untouched, releases, controller, files>>

\* check_for_updates that sets current_version and leaves is_installed
check_for_updates_flag_kept ==
  /\ pc = "check_for_updates"
  /\ \E queried \in BOOLEAN :
       LET latest    == tag_version(release.val.tag_name)
           installed == get_installed_version(marker)
       IN IF ~latest.some
          THEN /\ Fail("VersionParseError")
               /\ UNCHANGED <<trace, current_version, is_installed, has_update>>
          ELSE IF ~queried
          THEN /\ Fail("ServiceControlError")
               /\ trace' = Called(trace, "get_installed_version", FALSE)
               /\ UNCHANGED <<current_version, is_installed, has_update>>
          ELSE /\ current_version' = installed
               /\ is_installed' = is_installed
               /\ has_update' = update_available(latest.val, installed)
               /\ trace' = CalledWith(trace, "get_installed_version", TRUE, installed)
               /\ Return(update_available(latest.val, installed))
  /\ UNCHANGED <<latest_version, untouched, releases, controller, files, op, release,
                 asset, downloaded, pre>>

\* check_for_updates after get_latest_release: parse the tag, ask the
\* platform for the installed version, set current_version and is_installed
check_for_updates ==
  /\ pc = "check_for_updates"
  /\ \E queried \in BOOLEAN :
       LET latest    == tag_version(release.val.tag_name)
           installed == get_installed_version(marker)
       IN IF ~latest.some
          THEN /\ Fail("VersionParseError")
               /\ UNCHANGED <<trace, current_version, is_installed, has_update>>
          ELSE IF ~queried
          THEN /\ Fail("ServiceControlError")
               /\ trace' = Called(trace, "get_installed_version", FALSE)
               /\ UNCHANGED <<current_version, is_installed, has_update>>
          ELSE /\ current_version' = installed
               /\ is_installed' = installed.some
               /\ has_update' = update_available(latest.val, installed)
               /\ trace' = CalledWith(trace, "get_installed_version", TRUE, installed)
               /\ Return(update_available(latest.val, installed))
  /\ UNCHANGED <<latest_version, untouched, releases, controller, files, op, release,
                 asset, downloaded, pre>>

(***************************************************************************)
(* install                                                                 *)
(***************************************************************************)
\* the file name of the downloaded archive in the temporary directory
download_path == asset.val.name

WithFile(fs, name) == fs \cup {name}

WithoutFile(fs, name) == fs \ {name}

\* install is called
call_install ==
  /\ \E include_prerelease \in BOOLEAN : Begin("install", include_prerelease)
  /\ pc' = "get_latest_release"
  /\ stack' = <<"install_select">>
  /\ result' = Ret("running", "none")
  /\ trace' = <<>>
  /\ UNCHANGED <<manager, untouched, releases, controller, files>>

\* install, lines 480-489: select the asset, create the temporary directory
install_select ==
  /\ pc = "install_select"
  /\ LET chosen == select_asset(release.val, platform.os, platform.cpu)
     IN IF ~chosen.ok
        THEN /\ Fail(chosen.err)
             /\ trace' = Called(trace, "select_asset", FALSE)
             /\ asset' = asset
        ELSE \E made \in BOOLEAN :
               /\ asset' = Some(chosen.val)
               /\ trace' = Called(Called(trace, "select_asset", TRUE), "create_temp_dir", made)
               /\ IF made
                  THEN pc' = "download_asset" /\ UNCHANGED <<stack, result>>
                  ELSE Fail("IOError")
  /\ UNCHANGED <<manager, untouched, releases, controller, files, op, release, downloaded,
                 has_update, pre>>

\* download_asset, lines 369-389: send the request, create the file,
\* publish Downloading 0.0
download_asset_begin ==
  /\ pc = "download_asset"
  /\ \E sent \in BOOLEAN, created \in BOOLEAN :
       IF ~sent
       THEN /\ Fail("NetworkError")
            /\ trace' = Called(Called(trace, "http_get", FALSE), "download", FALSE)
            /\ UNCHANGED <<temp_files, downloaded>>
       ELSE IF ~created
       THEN /\ Fail("IOError")
            /\ trace' = Called(Called(Called(trace, "http_get", TRUE), "file_create", FALSE),
                               "download", FALSE)
            /\ UNCHANGED <<temp_files, downloaded>>
       ELSE /\ temp_files' = WithFile(temp_files, download_path)
            /\ downloaded' = 0
            /\ trace' = broadcast_progress(
                          Called(Called(trace, "http_get", TRUE), "file_create", TRUE),
                          "Downloading", 0)
            /\ pc' = "download_read"
            /\ UNCHANGED <<stack, result>>
  /\ UNCHANGED <<manager, untouched, releases, controller, install_dir, op, release, asset,
                 has_update, pre>>

\* download_progress that reports the share still to come
download_progress_remaining(bytes, total_size) ==
  ((total_size - bytes) * 100) \div total_size

\* the progress download_asset publishes after a chunk: downloaded / total
download_progress(bytes, total_size) == (bytes * 100) \div total_size

\* download_asset whose read loop ends without the closing event
download_asset_read_no_final ==
  /\ pc = "download_read"
  /\ \E read_ok \in BOOLEAN, bytes_read \in 0..MaxChunk, written \in BOOLEAN :
       /\ downloaded + bytes_read <= MaxBytes
       /\ IF ~read_ok
          THEN /\ bytes_read = 0 /\ written
               /\ Fail("IOError")
               /\ trace' = Called(Called(trace, "read", FALSE), "download", FALSE)
               /\ UNCHANGED <<temp_files, downloaded>>
          ELSE IF bytes_read = 0
          THEN /\ written
               /\ trace' = Called(Called(trace, "read", TRUE), "download", TRUE)
               /\ pc' = "extract_archive"
               /\ UNCHANGED <<stack, result, temp_files, downloaded>>
          ELSE IF ~written
          THEN /\ Fail("IOError")
               /\ trace' = Called(Called(Called(trace, "read", TRUE), "write", FALSE),
                                  "download", FALSE)
               /\ UNCHANGED <<temp_files, downloaded>>
          ELSE /\ downloaded' = downloaded + bytes_read
               /\ temp_files' = WithFile(temp_files, download_path)
               /\ trace' =
                    LET tr == Called(Called(trace, "read", TRUE), "write", TRUE)
                    IN IF asset.val.size > 0
                       THEN broadcast_progress(tr, "Downloading",
                              download_progress(downloaded + bytes_read, asset.val.size))
                       ELSE tr
               /\ pc' = "download_read"
               /\ UNCHANGED <<stack, result>>
  /\ UNCHANGED <<manager, untouched, releases, controller, install_dir, op, release, asset,
                 has_update, pre>>

\* download_asset, lines 391-411: one turn of the read loop
download_asset_read ==
  /\ pc = "download_read"
  /\ \E read_ok \in BOOLEAN, bytes_read \in 0..MaxChunk, written \in BOOLEAN :
       /\ downloaded + bytes_read <= MaxBytes
       /\ IF ~read_ok
          THEN /\ bytes_read = 0 /\ written
               /\ Fail("IOError")
               /\ trace' = Called(Called(trace, "read", FALSE), "download", FALSE)
               /\ UNCHANGED <<temp_files, downloaded>>
          ELSE IF bytes_read = 0
          THEN /\ written
               /\ trace' = Called(broadcast_progress(Called(trace, "read", TRUE),
                                                     "Downloading", 100),
                                  "download", TRUE)
               /\ pc' = "extract_archive"
               /\ UNCHANGED <<stack, result, temp_files, downloaded>>
          ELSE IF ~written
          THEN /\ Fail("IOError")
               /\ trace' = Called(Called(Called(trace, "read", TRUE), "write", FALSE),
                                  "download", FALSE)
               /\ UNCHANGED <<temp_files, downloaded>>
          ELSE /\ downloaded' = downloaded + bytes_read
               /\ temp_files' = WithFile(temp_files, download_path)
               /\ trace' =
                    LET tr == Called(Called(trace, "read", TRUE), "write", TRUE)
                    IN IF asset.val.size > 0
                       THEN broadcast_progress(tr, "Downloading",
                              download_progress(downloaded + bytes_read, asset.val.size))
                       ELSE tr
               /\ pc' = "download_read"
               /\ UNCHANGED <<stack, result>>
  /\ UNCHANGED <<manager, untouched, releases, controller, install_dir, op, release, asset,
                 has_update, pre>>

\* archive_format that looks for the extension anywhere in the name
archive_format_by_contains(file_name) ==
  IF contains(file_name, X_tar_gz) \/ contains(file_name, X_tgz) THEN "tar_gz"
  ELSE IF contains(file_name, X_zip) THEN "zip"
  ELSE "unsupported"

\* the decoder extract_archive dispatches to, by the file name's ending
archive_format(file_name) ==
  IF ends_with(file_name, X_tar_gz) \/ ends_with(file_name, X_tgz) THEN "tar_gz"
  ELSE IF ends_with(file_name, X_zip) THEN "zip"
  ELSE "unsupported"

\* extract_archive whose decoding error is dropped: install goes on
extract_archive_error_dropped ==
  /\ pc = "extract_archive"
  /\ \E decoded \in BOOLEAN :
       LET tr1 == Called(broadcast_progress(trace, "Extracting", 0), "create_install_dir", TRUE)
       IN /\ install_dir' = IF decoded THEN "full" ELSE "partial"
          /\ trace' = Called(broadcast_progress(Called(tr1, "decode", decoded),
                                                "Extracting", 100),
                             "extract", decoded)
          /\ IF op.name = "extract_archive"
             THEN Return("extracted")
             ELSE pc' = "install_service" /\ UNCHANGED <<stack, result>>
  /\ UNCHANGED <<manager, untouched, releases, controller, temp_files, op, locals, pre>>

\* extract_archive: publish Extracting 0.0, create the install directory,
\* decode by extension, publish Extracting 1.0; it returns to install, or
\* to the caller when the public extract_archive was called on its own
extract_archive ==
  /\ pc = "extract_archive"
  /\ \E made \in BOOLEAN, decoded \in {"ok", "failed_before_writing", "failed_midway"} :
       LET tr0   == broadcast_progress(trace, "Extracting", 0)
           dir   == IF install_dir = "absent" THEN "empty" ELSE install_dir
           tr1   == Called(tr0, "create_install_dir", TRUE)
       IN IF ~made
          THEN /\ decoded = "ok"
               /\ Fail("IOError")
               /\ trace' = Called(Called(tr0, "create_install_dir", FALSE), "extract", FALSE)
               /\ install_dir' = install_dir
          ELSE IF archive_format(download_path) = "unsupported"
          THEN /\ decoded = "ok"
               /\ Fail("UnsupportedArchiveFormat")
               /\ trace' = Called(tr1, "extract", FALSE)
               /\ install_dir' = dir
          ELSE IF decoded # "ok"
          THEN /\ Fail("IOError")
               /\ trace' = Called(Called(tr1, "decode", FALSE), "extract", FALSE)
               /\ install_dir' = IF decoded = "failed_midway" THEN "partial" ELSE dir
          ELSE /\ install_dir' = "full"
               /\ trace' = Called(broadcast_progress(Called(tr1, "decode", TRUE),
                                                     "Extracting", 100),
                                  "extract", TRUE)
               /\ IF op.name = "extract_archive"
                  THEN Return("extracted")
                  ELSE pc' = "install_service" /\ UNCHANGED <<stack, result>>
  /\ UNCHANGED <<manager, untouched, releases, controller, temp_files, op, locals, pre>>

\* install_service that deletes the downloaded archive when the service
\* cannot be registered
install_service_cleaning ==
  /\ pc = "install_service"
  /\ \E installed \in BOOLEAN :
       LET tr0 == broadcast_progress(trace, "Installing", 0)
           now == svc_install_service(service, release.val.tag_name)
       IN IF ~installed
          THEN /\ Fail("ServiceControlError")
               /\ trace' = CalledWith(tr0, "install_service", FALSE, release.val.tag_name)
               /\ UNCHANGED controller
               /\ temp_files' = WithoutFile(temp_files, download_path)
               /\ install_dir' = install_dir
          ELSE /\ service' = now.service
               /\ marker' = now.marker
               /\ trace' = broadcast_progress(
                             CalledWith(tr0, "install_service", TRUE, release.val.tag_name),
                             "Installing", 100)
               /\ pc' = "install_update_state"
               /\ UNCHANGED <<stack, result, files>>
  /\ UNCHANGED <<manager, untouched, releases, op, locals, pre>>

\* install_service that publishes Installing 1.0 before the service is
\* registered
install_service_early_event ==
  /\ pc = "install_service"
  /\ \E installed \in BOOLEAN :
       LET tr0 == broadcast_progress(broadcast_progress(trace, "Installing", 0),
                                     "Installing", 100)
           now == svc_install_service(service, release.val.tag_name)
       IN IF ~installed
          THEN /\ Fail("ServiceControlError")
               /\ trace' = CalledWith(tr0, "install_service", FALSE, release.val.tag_name)
               /\ UNCHANGED controller
          ELSE /\ service' = now.service
               /\ marker' = now.marker
               /\ trace' = CalledWith(tr0, "install_service", TRUE, release.val.tag_name)
               /\ pc' = "install_update_state"
               /\ UNCHANGED <<stack, result>>
  /\ UNCHANGED <<manager, untouched, releases, files, op, locals, pre>>

\* install, lines 496-508: publish Installing 0.0, register the service
\* with the release tag, publish Installing 1.0
install_service ==
  /\ pc = "install_service"
  /\ \E installed \in BOOLEAN :
       LET tr0 == broadcast_progress(trace, "Installing", 0)
           now == svc_install_service(service, release.val.tag_name)
       IN IF ~installed
          THEN /\ Fail("ServiceControlError")
               /\ trace' = CalledWith(tr0, "install_service", FALSE, release.val.tag_name)
               /\ UNCHANGED controller
          ELSE /\ service' = now.service
               /\ marker' = now.marker
               /\ trace' = broadcast_progress(
                             CalledWith(tr0, "install_service", TRUE, release.val.tag_name),
                             "Installing", 100)
               /\ pc' = "install_update_state"
               /\ UNCHANGED <<stack, result>>
  /\ UNCHANGED <<manager, untouched, releases, files, op, locals, pre>>

\* install_update_state that sets current_version and forgets is_installed
install_update_state_flag_forgotten ==
  /\ pc = "install_update_state"
  /\ current_version' = tag_version(release.val.tag_name)
  /\ is_installed' = is_installed
  /\ trace' = Called(trace, "update_state", TRUE)
  /\ pc' = "install_cleanup"
  /\ UNCHANGED <<stack, result>>
  /\ UNCHANGED <<latest_version, untouched, releases, controller, files, op, locals, pre>>

\* install, lines 511-513: current_version and is_installed
install_update_state ==
  /\ pc = "install_update_state"
  /\ LET version == tag_version(release.val.tag_name)
     IN IF ~version.some
        THEN /\ Fail("VersionParseError")
             /\ UNCHANGED <<trace, current_version, is_installed>>
        ELSE /\ current_version' = version
             /\ is_installed' = TRUE
             /\ trace' = Called(trace, "update_state", TRUE)
             /\ pc' = "install_cleanup"
             /\ UNCHANGED <<stack, result>>
  /\ UNCHANGED <<latest_version, untouched, releases, controller, files, op, locals, pre>>

\* install_cleanup that starts the service again when the archive cannot
\* be deleted
install_cleanup_restarting ==
  /\ pc = "install_cleanup"
  /\ \E removed \in BOOLEAN :
       /\ trace' = Called(trace, "remove_archive", removed)
       /\ IF removed
          THEN /\ temp_files' = WithoutFile(temp_files, download_path)
               /\ service' = service
               /\ Return("installed")
          ELSE /\ temp_files' = temp_files
               /\ service' = IF svc_can_toggle(service) THEN svc_start_service(service)
                             ELSE service
               /\ Fail("IOError")
  /\ UNCHANGED <<manager, untouched, releases, marker, install_dir, op, locals, pre>>

\* install, lines 516-519: delete the downloaded archive and return
install_cleanup ==
  /\ pc = "install_cleanup"
  /\ \E removed \in BOOLEAN :
       /\ trace' = Called(trace, "remove_archive", removed)
       /\ IF removed
          THEN temp_files' = WithoutFile(temp_files, download_path) /\ Return("installed")
          ELSE temp_files' = temp_files /\ Fail("IOError")
  /\ UNCHANGED <<manager, untouched, releases, controller, install_dir, op, locals, pre>>

(***************************************************************************)
(* update                                                                  *)
(***************************************************************************)
\* call_update without the is_installed guard
call_update_unguarded ==
  /\ \E include_prerelease \in BOOLEAN : Begin("update", include_prerelease)
  /\ trace' = <<>>
  /\ pc' = "get_latest_release"
  /\ stack' = <<"check_for_updates", "update_decide">>
  /\ result' = Ret("running", "none")
  /\ UNCHANGED <<manager, untouched, releases, controller, files>>

\* update is called: lines 524-528, bail when nothing is installed,
\* otherwise run check_for_updates
call_update ==
  /\ \E include_prerelease \in BOOLEAN : Begin("update", include_prerelease)
  /\ trace' = <<>>
  /\ IF ~is_installed
     THEN Fail("NotInstalledError")
     ELSE /\ pc' = "get_latest_release"
          /\ stack' = <<"check_for_updates", "update_decide">>
          /\ result' = Ret("running", "none")
  /\ UNCHANGED <<manager, untouched, releases, controller, files>>

\* update_decide without the early return: an update is always performed
update_decide_no_return ==
  /\ pc = "update_decide"
  /\ IF ~current_version.some \/ ~latest_version.some
     THEN Panic("unwrap on None") /\ trace' = trace
     ELSE /\ trace' = broadcast_progress(trace, "Updating", 0)
          /\ pc' = "update_stop_service"
          /\ UNCHANGED <<stack, result>>
  /\ UNCHANGED <<manager, untouched, releases, controller, files, op, locals, pre>>

\* update, lines 529-540: return when up to date; otherwise print both
\* versions (unwrap) and publish Updating 0.0
update_decide ==
  /\ pc = "update_decide"
  /\ IF ~has_update
     THEN Return("up_to_date") /\ trace' = trace
     ELSE IF ~current_version.some \/ ~latest_version.some
     THEN Panic("unwrap on None") /\ trace' = trace
     ELSE /\ trace' = broadcast_progress(trace, "Updating", 0)
          /\ pc' = "update_stop_service"
          /\ UNCHANGED <<stack, result>>
  /\ UNCHANGED <<manager, untouched, releases, controller, files, op, locals, pre>>

\* update_stop_service that ignores the outcome of stop_service
update_stop_service_unchecked ==
  /\ pc = "update_stop_service"
  /\ \E stopped \in BOOLEAN :
       /\ service' = IF stopped /\ svc_can_toggle(service) THEN svc_stop_service(service)
                     ELSE service
       /\ trace' = broadcast_progress(
                     Called(trace, "stop_service", stopped /\ svc_can_toggle(service)),
                     "Updating", 20)
       /\ pc' = "get_latest_release"
       /\ stack' = <<"install_select", "update_start_service">>
       /\ result' = result
  /\ UNCHANGED <<manager, untouched, releases, marker, files, op, locals, pre>>

\* update, lines 543-556: stop the service, publish Updating 0.2, run install
update_stop_service ==
  /\ pc = "update_stop_service"
  /\ \E stopped \in BOOLEAN :
       IF ~stopped \/ ~svc_can_toggle(service)
       THEN /\ ~stopped
            /\ Fail("ServiceControlError")
            /\ trace' = Called(trace, "stop_service", FALSE)
            /\ service' = service
       ELSE /\ service' = svc_stop_service(service)
            /\ trace' = broadcast_progress(Called(trace, "stop_service", TRUE), "Updating", 20)
            /\ pc' = "get_latest_release"
            /\ stack' = <<"install_select", "update_start_service">>
            /\ result' = result
  /\ UNCHANGED <<manager, untouched, releases, marker, files, op, locals, pre>>

\* update_start_service that publishes Updating 1.0 before it starts the service
update_start_service_early_event ==
  /\ pc = "update_start_service"
  /\ \E started \in BOOLEAN :
       LET tr0 == broadcast_progress(broadcast_progress(trace, "Updating", 80),
                                     "Updating", 100)
       IN IF ~started \/ ~svc_can_toggle(service)
          THEN /\ ~started
               /\ Fail("ServiceControlError")
               /\ trace' = Called(tr0, "start_service", FALSE)
               /\ service' = service
          ELSE /\ service' = svc_start_service(service)
               /\ trace' = Called(tr0, "start_service", TRUE)
               /\ Return("updated")
  /\ UNCHANGED <<manager, untouched, releases, marker, files, op, locals, pre>>

\* update_start_service that reports success without starting the service
update_start_service_not_started ==
  /\ pc = "update_start_service"
  /\ \E started \in BOOLEAN :
       LET tr0 == broadcast_progress(trace, "Updating", 80)
       IN IF ~started \/ ~svc_can_toggle(service)
          THEN /\ ~started
               /\ Fail("ServiceControlError")
               /\ trace' = Called(tr0, "start_service", FALSE)
               /\ service' = service
          ELSE /\ service' = service
               /\ trace' = broadcast_progress(Called(tr0, "start_service", TRUE),
                                              "Updating", 100)
               /\ Return("updated")
  /\ UNCHANGED <<manager, untouched, releases, marker, files, op, locals, pre>>

\* update, lines 558-575: publish Updating 0.8, start the service,
\* publish Updating 1.0
update_start_service ==
  /\ pc = "update_start_service"
  /\ \E started \in BOOLEAN :
       LET tr0 == broadcast_progress(trace, "Updating", 80)
       IN IF ~started \/ ~svc_can_toggle(service)
          THEN /\ ~started
               /\ Fail("ServiceControlError")
               /\ trace' = Called(tr0, "start_service", FALSE)
               /\ service' = service
          ELSE /\ service' = svc_start_service(service)
               /\ trace' = broadcast_progress(Called(tr0, "start_service", TRUE),
                                              "Updating", 100)
               /\ Return("updated")
  /\ UNCHANGED <<manager, untouched, releases, marker, files, op, locals, pre>>

(***************************************************************************)
(* uninstall                                                               *)
(***************************************************************************)
\* uninstall is called: lines 579-581, bail when nothing is installed
call_uninstall ==
  /\ Begin("uninstall", FALSE)
  /\ trace' = <<>>
  /\ IF ~is_installed
     THEN Fail("NotInstalledError")
     ELSE /\ pc' = "uninstall_service"
          /\ stack' = <<>>
          /\ result' = Ret("running", "none")
  /\ UNCHANGED <<manager, untouched, releases, controller, files>>

\* uninstall, lines 586-594: remove the service
uninstall_service ==
  /\ pc = "uninstall_service"
  /\ \E removed \in BOOLEAN :
       /\ trace' = Called(trace, "uninstall_service", removed)
       /\ IF removed
          THEN /\ service' = svc_uninstall_service.service
               /\ marker' = svc_uninstall_service.marker
               /\ pc' = "uninstall_remove_dir"
               /\ UNCHANGED <<stack, result>>
          ELSE Fail("ServiceControlError") /\ UNCHANGED controller
  /\ UNCHANGED <<manager, untouched, releases, files, op, locals, pre>>

\* uninstall_remove_dir that resets is_installed and keeps current_version
uninstall_remove_dir_version_kept ==
  /\ pc = "uninstall_remove_dir"
  /\ \E removed \in BOOLEAN :
       IF install_dir # "absent" /\ ~removed
       THEN /\ Fail("IOError")
            /\ trace' = Called(trace, "remove_install_dir", FALSE)
            /\ install_dir' \in {install_dir} \cup (IF install_dir = "full" THEN {"partial"} ELSE {})
            /\ UNCHANGED <<is_installed, current_version>>
       ELSE /\ removed
            /\ install_dir' = "absent"
            /\ trace' = IF install_dir # "absent"
                        THEN Called(trace, "remove_install_dir", TRUE) ELSE trace
            /\ is_installed' = FALSE
            /\ current_version' = current_version
            /\ Return("uninstalled")
  /\ UNCHANGED <<latest_version, untouched, releases, controller, temp_files, op, locals, pre>>

\* uninstall, lines 597-606: remove the install directory when it exists,
\* then forget the installation
uninstall_remove_dir ==
  /\ pc = "uninstall_remove_dir"
  /\ \E removed \in BOOLEAN :
       IF install_dir # "absent" /\ ~removed
       THEN /\ Fail("IOError")
            /\ trace' = Called(trace, "remove_install_dir", FALSE)
            /\ install_dir' \in {install_dir} \cup (IF install_dir = "full" THEN {"partial"} ELSE {})
            /\ UNCHANGED <<is_installed, current_version>>
       ELSE /\ removed
            /\ install_dir' = "absent"
            /\ trace' = IF install_dir # "absent"
                        THEN Called(trace, "remove_install_dir", TRUE) ELSE trace
            /\ is_installed' = FALSE
            /\ current_version' = None
            /\ Return("uninstalled")
  /\ UNCHANGED <<latest_version, untouched, releases, controller, temp_files, op, locals, pre>>

(***************************************************************************)
(* The host                                                                *)
(***************************************************************************)
\* the host publishes or withdraws releases: the listing changes.  The
\* manager sees the listing only when it fetches, so a change is placed
\* right before a fetch.
host_publish ==
  /\ pc = "get_latest_release"
  /\ releases' \in ReleaseLists \ {releases}
  /\ UNCHANGED <<manager, untouched, controller, files, pc, stack, op, locals, result,
                 trace, pre>>

(***************************************************************************)
(* extract_zip, entry by entry (extract_archive above keeps its outcome)   *)
(***************************************************************************)
\* extract_zip, lines 445-446: open the file and read the archive's directory
extract_zip_open ==
  /\ pc = "extract_zip"
  /\ \E opened \in BOOLEAN :
       /\ trace' = Called(trace, "open_archive", opened)
       /\ IF opened
          THEN pc' = "extract_zip_entry" /\ UNCHANGED <<stack, result>>
          ELSE Fail("IOError")
  /\ entry' = 0
  /\ UNCHANGED <<manager, platform, app, channel, releases, controller, files, op, locals, pre,
                 archive, unpacked>>

\* extract_zip, lines 448-474: one turn of the loop over the entries, or
\* the return after the last one
extract_zip_entry ==
  /\ pc = "extract_zip_entry"
  /\ IF entry = Len(archive)
     THEN /\ Return("extracted")
          /\ UNCHANGED <<trace, entry, unpacked>>
     ELSE LET e       == archive[entry + 1]
              outpath == enclosed_name(e)
          IN IF ~outpath.some
             THEN /\ entry' = entry + 1
                  /\ trace' = CalledWith(trace, "skip_entry", TRUE, entry + 1)
                  /\ UNCHANGED <<pc, stack, result, unpacked>>
             ELSE \E outcome \in {"ok", "failed_before_writing", "failed_after_writing"} :
                    IF outcome = "ok"
                    THEN /\ unpacked' = unpacked \cup places_made(outpath.val)
                         /\ entry' = entry + 1
                         /\ trace' = CalledWith(trace, "write_entry", TRUE, entry + 1)
                         /\ UNCHANGED <<pc, stack, result>>
                    ELSE /\ unpacked' = IF outcome = "failed_before_writing" THEN unpacked
                                        ELSE unpacked \cup places_made(outpath.val)
                         /\ entry' = entry
                         /\ trace' = CalledWith(trace, "write_entry", FALSE, entry + 1)
                         /\ Fail("IOError")
  /\ UNCHANGED <<manager, platform, app, channel, releases, controller, files, op, locals, pre,
                 archive>>

(***************************************************************************)
(* The progress channel and its subscribers                                *)
(***************************************************************************)
\* the live receivers of the channel
rx_cnt == Cardinality({s \in Subscribers : receivers[s] # NotSubscribed})

\* the events the channel still holds for a receiver
held == IF rx_cnt = 0 THEN 0
        ELSE LET s == CHOOSE s \in Subscribers :
                        /\ receivers[s] # NotSubscribed
                        /\ \A t \in Subscribers :
                             receivers[t] # NotSubscribed => receivers[s] <= receivers[t]
                 unread == progress_tx.sent - receivers[s]
             IN IF unread > buffer_len THEN buffer_len ELSE unread

\* subscribe: a new receiver that sees the events sent from now on
subscribe(s) ==
  /\ receivers[s] = NotSubscribed
  /\ receivers' = [receivers EXCEPT ![s] = progress_tx.sent]
  /\ UNCHANGED <<manager, platform, app, unpacking, progress_tx, releases, controller, files,
                 locals, pc, stack, op, result, trace, pre>>

\* broadcast_progress: send the event and drop the result of send, which
\* is an error when no receiver is alive (the event is then not stored)
broadcast_progress_send ==
  /\ progress_tx.sent < MaxEvents
  /\ progress_tx' = IF rx_cnt = 0 THEN progress_tx
                    ELSE [progress_tx EXCEPT !.sent = @ + 1]
  /\ trace' = <<[kind |-> "call", name |-> "send", ok |-> rx_cnt > 0]>>
  /\ UNCHANGED <<manager, platform, app, unpacking, receivers, releases, controller, files,
                 locals, pc, stack, op, result, pre>>

\* the subscriber's loop takes the next event, or learns that it lagged
recv(s) ==
  /\ receivers[s] # NotSubscribed
  /\ LET got == recv_ref(receivers[s], progress_tx.sent)
     IN /\ got.kind # "Empty"
        /\ receivers' = [receivers EXCEPT ![s] = got.next]
  /\ UNCHANGED <<manager, platform, app, unpacking, progress_tx, releases, controller, files,
                 locals, pc, stack, op, result, trace, pre>>

\* the subscriber's receiver is dropped
drop_receiver(s) ==
  /\ receivers[s] # NotSubscribed
  /\ receivers' = [receivers EXCEPT ![s] = NotSubscribed]
  /\ UNCHANGED <<manager, platform, app, unpacking, progress_tx, releases, controller, files,
                 locals, pc, stack, op, result, trace, pre>>

(***************************************************************************)
(* The wizard's tasks: installing, listening, monitoring                   *)
(***************************************************************************)
IsProgressEvent(r) == r.kind = "progress"

\* the events the manager has sent on the channel, in the order of sending
Published == SelectSeq(trace, IsProgressEvent)

\* the manager, and with it the sender of the channel, is dropped when
\* perform_installation returns
sender_dropped == tasks.install \in {"returned", "done"}

\* on_start_installation: the shared state is created, the installing task
\* and the monitor task are spawned
start_installation ==
  /\ tasks = NoTasks
  /\ pc = "idle" /\ op.name = "none"
  /\ installer_state' = InstallerState_default
  /\ \E install_as_service \in BOOLEAN :
       tasks' = [install |-> "perform_installation", listener |-> "none",
                 monitor |-> "running", install_as_service |-> install_as_service]
  /\ UNCHANGED <<manager, platform, unpacking, channel, progress_rx, ui, releases,
                 controller, files, locals, pc, stack, op, result, trace, pre>>

\* perform_installation, lines 44-73: the manager is made, the task
\* subscribes and spawns the listener
perform_installation_begin ==
  /\ tasks.install = "perform_installation"
  /\ is_installed' = FALSE
  /\ current_version' = None
  /\ latest_version' = None
  /\ progress_rx' = 0
  /\ tasks' = [tasks EXCEPT !.install = "fetching", !.listener = "recv"]
  /\ UNCHANGED <<platform, unpacking, channel, installer_state, ui, releases, controller, files,
                 locals, pc, stack, op, result, trace, pre>>

\* perform_installation, lines 76-80: the first status
perform_installation_fetching ==
  /\ tasks.install = "fetching"
  /\ installer_state' = [installer_state EXCEPT !.status = "Fetching latest release...", !.progress = 1000]
  /\ tasks' = [tasks EXCEPT !.install = "install"]
  /\ UNCHANGED <<manager, platform, unpacking, channel, progress_rx, ui, releases,
                 controller, files, locals, pc, stack, op, result, trace, pre>>

\* perform_installation, line 82: manager.install(false) is called
perform_installation_install ==
  /\ tasks.install = "install"
  /\ Begin("install", FALSE)
  /\ pc' = "get_latest_release"
  /\ stack' = <<"install_select">>
  /\ result' = Ret("running", "none")
  /\ trace' = <<>>
  /\ tasks' = [tasks EXCEPT !.install = "installing"]
  /\ UNCHANGED <<manager, platform, unpacking, channel, installer_state, progress_rx, ui, releases,
                 controller, files>>

\* perform_installation, lines 82-108: install has returned; the outcome
\* is written to the shared state and the function returns
perform_installation_match ==
  /\ tasks.install = "installing"
  /\ pc = "idle"
  /\ installer_state' = IF result.status = "ok"
              THEN [installer_state EXCEPT
                      !.status = "Installation complete!", !.progress = 10000,
                      !.completed = TRUE, !.success = TRUE,
                      !.message = IF tasks.install_as_service
                                  THEN "installed; service installed and started"
                                  ELSE "installed"]
              ELSE [installer_state EXCEPT
                      !.status = "Installation failed",
                      !.completed = TRUE, !.success = FALSE,
                      !.message = "failed"]
  /\ tasks' = [tasks EXCEPT !.install = "returned"]
  /\ UNCHANGED <<manager, platform, unpacking, channel, progress_rx, ui, releases,
                 controller, files, locals, pc, stack, op, result, trace, pre>>

\* main, lines 108-118: after the pause the installing task shows the
\* Complete page, when the window can be reached from the task
show_complete_page ==
  /\ tasks.install = "returned"
  /\ \E upgraded \in BOOLEAN :
       ui' = IF upgraded
             THEN [ui EXCEPT !.page = "Complete", !.install_success = installer_state.success]
             ELSE ui
  /\ tasks' = [tasks EXCEPT !.install = "done"]
  /\ UNCHANGED <<manager, platform, unpacking, channel, installer_state, progress_rx, releases,
                 controller, files, locals, pc, stack, op, result, trace, pre>>

\* the listener task, perform_installation lines 69-73: one turn of
\* `while let Ok(progress) = progress_rx.recv().await`; the loop ends when
\* the receiver lagged or when the channel is closed and empty
listener_recv ==
  /\ tasks.listener = "recv"
  /\ LET sent == Len(Published)
     IN IF sent - progress_rx > buffer_len
        THEN /\ tasks' = [tasks EXCEPT !.listener = "done"]
             /\ progress_rx' = sent - buffer_len
             /\ installer_state' = installer_state
        ELSE IF progress_rx < sent
        THEN /\ installer_state' = update_progress_state(installer_state, Published[progress_rx + 1])
             /\ progress_rx' = progress_rx + 1
             /\ tasks' = tasks
        ELSE /\ sender_dropped
             /\ tasks' = [tasks EXCEPT !.listener = "done"]
             /\ UNCHANGED <<installer_state, progress_rx>>
  /\ UNCHANGED <<manager, platform, unpacking, channel, ui, releases, controller, files,
                 locals, pc, stack, op, result, trace, pre>>

\* the monitor task, main lines 124-138: every 100 ms the status and the
\* progress are copied to the window; the loop ends when the state is
\* completed or the window cannot be reached
monitor_tick ==
  /\ tasks.monitor = "running"
  /\ \E upgraded \in BOOLEAN :
       IF upgraded
       THEN /\ ui' = [ui EXCEPT !.install_status = installer_state.status,
                                !.install_progress = installer_state.progress]
            /\ tasks' = [tasks EXCEPT !.monitor = IF installer_state.completed THEN "done"
                                                  ELSE "running"]
       ELSE /\ ui' = ui
            /\ tasks' = [tasks EXCEPT !.monitor = "done"]
  /\ UNCHANGED <<manager, platform, unpacking, channel, installer_state, progress_rx, releases,
                 controller, files, locals, pc, stack, op, result, trace, pre>>

(***************************************************************************)
(* StateProgress::new called on its own                                    *)
(***************************************************************************)
\* the f32 values StateProgress::new is called with
Floats == ((0 - MaxOver)..(100 + MaxOver)) \cup {NaN}

\* the public constructor is called with any state and any f32
call_StateProgress_new ==
  /\ \E state \in States, progress \in Floats :
       trace' = <<[kind |-> "call", name |-> "StateProgress_new", ok |-> TRUE,
                   val |-> progress],
                  StateProgress_new(state, progress)>>
  /\ UNCHANGED <<manager, untouched, releases, controller, files, locals, pc, stack, op,
                 result, pre>>

(***************************************************************************)
(* extract_archive called on its own                                       *)
(***************************************************************************)
\* the public extract_archive(&archive_path, &extract_to) is called with a
\* downloaded file at hand
call_extract_archive ==
  /\ pc = "idle"
  /\ asset.some
  /\ op' = [name |-> "extract_archive", include_prerelease |-> FALSE]
  /\ pre' = Snapshot
  /\ pc' = "extract_archive"
  /\ stack' = <<>>
  /\ result' = Ret("running", "none")
  /\ trace' = <<>>
  /\ UNCHANGED <<manager, untouched, releases, controller, files, locals>>

(***************************************************************************)
(* select_asset called on its own                                          *)
(***************************************************************************)
\* the public select_asset(&release) is called with a release at hand
call_select_asset ==
  /\ pc = "idle"
  /\ release.some
  /\ op' = [name |-> "select_asset", include_prerelease |-> FALSE]
  /\ pre' = Snapshot
  /\ LET chosen == select_asset(release.val, platform.os, platform.cpu)
     IN /\ result' = IF chosen.ok THEN Ret("ok", chosen.val) ELSE Ret("err", chosen.err)
        /\ trace' = Called(<<>>, "select_asset", chosen.ok)
  /\ UNCHANGED <<manager, untouched, releases, controller, files, pc, stack, release, asset,
                 downloaded, has_update>>

Next ==
  \/ call_check_for_updates
  \/ get_latest_release
  \/ check_for_updates
  \/ call_install
  \/ install_select
  \/ download_asset_begin
  \/ download_asset_read
  \/ extract_archive
  \/ install_service
  \/ install_update_state
  \/ install_cleanup
  \/ call_update
  \/ update_decide
  \/ update_stop_service
  \/ update_start_service
  \/ call_uninstall
  \/ uninstall_service
  \/ uninstall_remove_dir
  \/ host_publish

Spec == Init /\ [][Next]_vars

(***************************************************************************)
(* select_asset on every platform and every short asset list               *)
(***************************************************************************)
InitSelect ==
  /\ is_installed = FALSE
  /\ current_version = None
  /\ latest_version = None
  /\ platform \in AllPlatforms
  /\ releases = <<>>
  /\ service = "NotInstalled" /\ marker = None /\ install_dir = "absent"
  /\ temp_files = {}
  /\ pc = "idle"
  /\ stack = <<>>
  /\ op = [name |-> "none", include_prerelease |-> FALSE]
  /\ release \in {Some(GitHubRelease(tag, pr, assets)) :
                    tag \in {T_v2_0_0, T_latest}, pr \in BOOLEAN, assets \in AssetLists}
  /\ asset = None
  /\ downloaded = 0
  /\ has_update = FALSE
  /\ result = Ret("none", "none")
  /\ trace = <<>>
  /\ pre = Snapshot
  /\ archive = <<>> /\ entry = 0 /\ unpacked = {}
  /\ progress_tx = NewChannel /\ receivers = NoReceivers
  /\ installer_state = InstallerState_default /\ tasks = NoTasks /\ progress_rx = 0 /\ ui = NewUi

NextSelect == call_select_asset

SpecSelect == InitSelect /\ [][NextSelect]_vars

(***************************************************************************)
(* The wizard: one installation with its listener and its monitor          *)
(***************************************************************************)
NextApp ==
  \/ start_installation
  \/ perform_installation_begin
  \/ perform_installation_fetching
  \/ perform_installation_install
  \/ get_latest_release
  \/ install_select
  \/ download_asset_begin
  \/ download_asset_read
  \/ extract_archive
  \/ install_service
  \/ install_update_state
  \/ install_cleanup
  \/ perform_installation_match
  \/ show_complete_page
  \/ listener_recv
  \/ monitor_tick

SpecApp == Init /\ [][NextApp]_vars

(***************************************************************************)
(* The channel with a publisher and its subscribers                        *)
(***************************************************************************)
InitChannel ==
  /\ is_installed = FALSE
  /\ current_version = None
  /\ latest_version = None
  /\ platform \in Platforms
  /\ releases = <<>>
  /\ service = "NotInstalled" /\ marker = None
  /\ install_dir = "absent"
  /\ temp_files = {}
  /\ pc = "idle"
  /\ stack = <<>>
  /\ op = [name |-> "none", include_prerelease |-> FALSE]
  /\ release = None
  /\ asset = None
  /\ downloaded = 0
  /\ has_update = FALSE
  /\ result = Ret("none", "none")
  /\ trace = <<>>
  /\ pre = Snapshot
  /\ archive = <<>> /\ entry = 0 /\ unpacked = {}
  /\ progress_tx = NewChannel /\ receivers = NoReceivers
  /\ installer_state = InstallerState_default /\ tasks = NoTasks /\ progress_rx = 0 /\ ui = NewUi

NextChannel ==
  \/ \E s \in Subscribers : subscribe(s)
  \/ broadcast_progress_send
  \/ \E s \in Subscribers : recv(s)
  \/ \E s \in Subscribers : drop_receiver(s)

SpecChannel == InitChannel /\ [][NextChannel]_vars

(***************************************************************************)
(* StateProgress::new on every state and value                             *)
(***************************************************************************)
NextProgress == call_StateProgress_new

SpecProgress == InitChannel /\ [][NextProgress]_vars

(***************************************************************************)
(* extract_archive on every file name                                      *)
(***************************************************************************)
InitExtract ==
  /\ is_installed = FALSE
  /\ current_version = None
  /\ latest_version = None
  /\ platform \in Platforms
  /\ releases = <<>>
  /\ service = "NotInstalled" /\ marker = None
  /\ install_dir \in {"absent", "empty", "partial", "full"}
  /\ asset \in {Some([name |-> n, size |-> 0]) : n \in ArchiveNames}
  /\ temp_files = {asset.val.name}
  /\ pc = "idle"
  /\ stack = <<>>
  /\ op = [name |-> "none", include_prerelease |-> FALSE]
  /\ release = None
  /\ downloaded = 0
  /\ has_update = FALSE
  /\ result = Ret("none", "none")
  /\ trace = <<>>
  /\ pre = Snapshot
  /\ archive = <<>> /\ entry = 0 /\ unpacked = {}
  /\ progress_tx = NewChannel /\ receivers = NoReceivers
  /\ installer_state = InstallerState_default /\ tasks = NoTasks /\ progress_rx = 0 /\ ui = NewUi

NextExtract ==
  \/ call_extract_archive
  \/ extract_archive

SpecExtract == InitExtract /\ [][NextExtract]_vars

(***************************************************************************)
(* extract_zip on every short archive                                      *)
(***************************************************************************)
InitZip ==
  /\ is_installed = FALSE
  /\ current_version = None
  /\ latest_version = None
  /\ platform \in Platforms
  /\ releases = <<R_latest, R_1_0_0>>
  /\ service = "NotInstalled" /\ marker = None
  /\ install_dir \in {"empty", "full"}
  /\ temp_files = {A_linux_zip.name}
  /\ pc = "extract_zip"
  /\ stack = <<>>
  /\ op = [name |-> "extract_zip", include_prerelease |-> FALSE]
  /\ release = Some(R_1_0_0)
  /\ asset = Some(A_linux_zip)
  /\ downloaded = 0
  /\ has_update = FALSE
  /\ result = Ret("running", "none")
  /\ trace = <<>>
  /\ pre = Snapshot
  /\ archive \in Archives /\ entry = 0 /\ unpacked = {}
  /\ progress_tx = NewChannel /\ receivers = NoReceivers
  /\ installer_state = InstallerState_default /\ tasks = NoTasks /\ progress_rx = 0 /\ ui = NewUi

NextZip ==
  \/ extract_zip_open
  \/ extract_zip_entry

SpecZip == InitZip /\ [][NextZip]_vars

(***************************************************************************)
(* Reading the record of an operation                                      *)
(***************************************************************************)
IsCall(e, name) == e.kind = "call" /\ e.name = name

IsProgress(e, state) == e.kind = "progress" /\ e.state = state

\* positions of the calls of that name in the record
CallsAt(name) == {i \in 1..Len(trace) : IsCall(trace[i], name)}

\* positions of the progress events of that phase in the record
ProgressAt(state) == {i \in 1..Len(trace) : IsProgress(trace[i], state)}

\* the operation of that name has returned to its caller
Returned(name) == op.name = name /\ pc = "idle" /\ result.status \in {"ok", "err"}

ReturnedOk(name) == op.name = name /\ pc = "idle" /\ result.status = "ok"

\* what the platform reported to the last get_installed_version of the operation
Reported ==
  LET at == {i \in CallsAt("get_installed_version") : trace[i].ok}
  IN trace[CHOOSE i \in at : \A j \in at : j <= i].val

V(major, minor, patch) == [major |-> major, minor |-> minor, patch |-> patch, pre |-> <<>>]

(***************************************************************************)
(* C1: a successful check_for_updates returns true when the platform       *)
(* reports no installed version, and otherwise returns true exactly when   *)
(* the version of the selected release is strictly greater than the        *)
(* reported one; 2.0.0 against 1.5.0 gives true, 1.0.0 against 1.0.0 and   *)
(* 1.0.0 against 1.5.0 give false.                                         *)
(***************************************************************************)
C1_CheckResult ==
  ReturnedOk("check_for_updates") =>
    LET latest == tag_version(release.val.tag_name)
    IN /\ latest.some
       /\ ~Reported.some => result.val = TRUE
       /\ Reported.some => (result.val <=> VersionLess(Reported.val, latest.val))
       /\ (latest.val = V(2, 0, 0) /\ Reported = Some(V(1, 5, 0))) => result.val = TRUE
       /\ (latest.val = V(1, 0, 0) /\ Reported = Some(V(1, 0, 0))) => result.val = FALSE
       /\ (latest.val = V(1, 5, 0) /\ Reported = Some(V(1, 5, 0))) => result.val = FALSE
       /\ (latest.val = V(1, 0, 0) /\ Reported = Some(V(1, 5, 0))) => result.val = FALSE

\* a check that found the installed version equal to the latest one
C1_Witness ==
  /\ ReturnedOk("check_for_updates")
  /\ Reported.some
  /\ Reported.val = tag_version(release.val.tag_name).val
  /\ result.val = FALSE

(***************************************************************************)
(* C2: between operations, is_installed is true exactly when the platform  *)
(* holds a version marker.  (Violated: a new manager reports false on a    *)
(* platform that holds a marker, and a failed uninstall leaves true after  *)
(* the marker is gone.)                                                    *)
(***************************************************************************)
C2_InstalledIffMarker == pc = "idle" => (is_installed <=> marker.some)

(***************************************************************************)
(* C3: update or uninstall called while is_installed is false returns      *)
(* NotInstalledError at once: nothing is fetched, no collaborator is       *)
(* called, no event is published, and manager, service, marker and files   *)
(* are as before the call.                                                 *)
(***************************************************************************)
C3_NotInstalledNoEffect ==
  (op.name \in {"update", "uninstall"} /\ ~pre.is_installed) =>
    /\ pc = "idle"
    /\ result = Ret("err", "NotInstalledError")
    /\ trace = <<>>
    /\ Snapshot = pre

\* update refused although the platform holds an installed service
C3_Witness ==
  /\ op.name = "update"
  /\ ~pre.is_installed
  /\ result = Ret("err", "NotInstalledError")
  /\ marker.some

(***************************************************************************)
(* The install flow inside the record of an operation                      *)
(***************************************************************************)
InstallSteps ==
  <<"latest_release", "select_asset", "download", "extract", "install_service",
    "update_state", "remove_archive">>

\* where the install flow starts in the record: at once in install, after
\* the stop_service call in update
InstallStart ==
  IF op.name = "install" THEN 1
  ELSE IF op.name = "update" /\ CallsAt("stop_service") # {}
  THEN (CHOOSE i \in CallsAt("stop_service") : TRUE) + 1
  ELSE Len(trace) + 1

IsInstallStep(e) == e.kind = "call" /\ e.name \in Range(InstallSteps)

\* the steps of the install flow begun so far, with their outcomes
StepsDone == SelectSeq(SubSeq(trace, InstallStart, Len(trace)), IsInstallStep)

\* the errors a step of install can end with
StepErrors(name) ==
  CASE name = "latest_release"  -> {"NetworkError", "NoReleaseFound", "VersionParseError"}
    [] name = "select_asset"    -> {"NoMatchingAsset", "UnsupportedPlatform"}
    [] name = "download"        -> {"NetworkError", "IOError"}
    [] name = "extract"         -> {"IOError", "UnsupportedArchiveFormat"}
    [] name = "install_service" -> {"ServiceControlError"}
    [] name = "update_state"    -> {"VersionParseError"}
    [] name = "remove_archive"  -> {"IOError"}

(***************************************************************************)
(* C4: install runs latest_release, select_asset, download, extract,       *)
(* install_service, the in-memory update and the archive deletion in this  *)
(* order; a step starts only after every earlier one succeeded, and the    *)
(* first failing step ends the operation with that step's error.  The      *)
(* marker changes only after download and extraction succeeded, the        *)
(* manager's installation state only after install_service succeeded.      *)
(***************************************************************************)
C4_InstallOrder ==
  op.name \in {"install", "update"} =>
    LET st == StepsDone
        n  == Len(st)
    IN /\ n <= Len(InstallSteps)
       /\ \A i \in 1..n : st[i].name = InstallSteps[i] /\ (i < n => st[i].ok)
       /\ (n > 0 /\ ~st[n].ok) =>
            /\ pc = "idle"
            /\ result.status = "err"
            /\ result.val \in StepErrors(st[n].name)
       /\ marker # pre.marker => (n >= 5 /\ st[3].ok /\ st[4].ok /\ st[5].ok)
       /\ install_dir # pre.install_dir => (n >= 4 /\ st[3].ok)
       /\ (op.name = "install" /\ <<is_installed, current_version>> #
                                  <<pre.is_installed, pre.current_version>>)
            => (n >= 6 /\ st[5].ok)
       /\ ReturnedOk("install") => (n = 7 /\ st[7].ok)

\* an install that failed in extraction: install_service was not called
C4_Witness ==
  /\ Returned("install")
  /\ Len(StepsDone) = 4
  /\ ~StepsDone[4].ok
  /\ CallsAt("install_service") = {}
  /\ result.status = "err"

(***************************************************************************)
(* C5: when install returns success, is_installed is true and both         *)
(* current_version and latest_version are the version of the tag, leading  *)
(* 'v' removed, of the release that was selected, whose asset was          *)
(* downloaded and whose tag was handed to install_service in this call.    *)
(***************************************************************************)
\* the versions the tags of the model stand for
TagMeaning(tag) ==
  CASE tag = T_v2_0_0    -> Some(V(2, 0, 0))
    [] tag = T_v1_5_0    -> Some(V(1, 5, 0))
    [] tag = T_1_0_0     -> Some(V(1, 0, 0))
    [] tag = T_v2_0_0_rc -> Some([major |-> 2, minor |-> 0, patch |-> 0,
                                  pre |-> <<(<<"r", "c">>), (<<"1">>)>>])
    [] OTHER -> None

\* install has just returned success, to the user or to update
InstallReturnedOk ==
  \/ ReturnedOk("install")
  \/ op.name = "update" /\ pc = "update_start_service"

C5_InstallSetsVersions ==
  InstallReturnedOk =>
    LET registered == {i \in CallsAt("install_service") : trace[i].ok}
    IN /\ is_installed
       /\ release.some /\ asset.some
       /\ asset.val \in Range(release.val.assets)
       /\ Cardinality(registered) = 1
       /\ \A i \in registered : trace[i].val = release.val.tag_name
       /\ TagMeaning(release.val.tag_name).some
       /\ current_version = TagMeaning(release.val.tag_name)
       /\ latest_version = TagMeaning(release.val.tag_name)

\* a successful install of the release tagged v2.0.0
C5_Witness ==
  /\ ReturnedOk("install")
  /\ release.val.tag_name = T_v2_0_0
  /\ current_version = Some(V(2, 0, 0))
  /\ ~pre.is_installed

(***************************************************************************)
(* C6: when update's own check_for_updates reports no update, update       *)
(* returns success at once: nothing is added to the record (no             *)
(* stop_service, no install step, no start_service, no Updating event),    *)
(* service, marker and files stay, and is_installed and current_version    *)
(* are what the check set from the platform's answer.                      *)
(***************************************************************************)
C6_NoUpdateNoAction ==
  [][(pc = "update_decide" /\ ~has_update) =>
       /\ pc' = "idle"
       /\ result' = Ret("ok", "up_to_date")
       /\ trace' = trace
       /\ ProgressAt("Updating") = {}
       /\ CallsAt("stop_service") \cup CallsAt("start_service")
            \cup CallsAt("install_service") \cup CallsAt("select_asset") = {}
       /\ UNCHANGED <<manager, controller, files>>
       /\ is_installed' = Reported.some
       /\ current_version' = Reported
       /\ is_installed']_vars

\* an update that found the installed version up to date
C6_Witness ==
  /\ ReturnedOk("update")
  /\ result.val = "up_to_date"
  /\ ~has_update
  /\ Len(trace) = 3

(***************************************************************************)
(* C7: in update, stop_service comes first, then the install flow, then    *)
(* start_service: every step of the install flow follows a successful      *)
(* stop_service, start_service follows the successful end of the install   *)
(* flow, and no file is touched before stop_service succeeded.             *)
(***************************************************************************)
InstallFlowCalls ==
  {"select_asset", "create_temp_dir", "http_get", "file_create", "read", "write",
   "download", "create_install_dir", "decode", "extract", "install_service",
   "update_state", "remove_archive"}

C7_UpdateOrder ==
  op.name = "update" =>
    LET stops    == CallsAt("stop_service")
        starts   == CallsAt("start_service")
        cleanups == CallsAt("remove_archive")
        flow     == {i \in 1..Len(trace) :
                       trace[i].kind = "call" /\ trace[i].name \in InstallFlowCalls}
    IN /\ Cardinality(stops) <= 1 /\ Cardinality(starts) <= 1
       /\ Cardinality(CallsAt("fetch_releases")) <= 2
       /\ Cardinality(CallsAt("fetch_releases")) = 2 => stops # {}
       /\ \A i \in flow : \E k \in stops : k < i /\ trace[k].ok
       /\ \A t \in starts : \E c \in cleanups : c < t /\ trace[c].ok
       /\ \A t \in starts : \A i \in flow : i < t
       /\ files # <<pre.install_dir, pre.temp_files>> => \E k \in stops : trace[k].ok
       /\ pc = "update_stop_service" => has_update /\ stops = {}
       /\ (ReturnedOk("update") /\ has_update) => (stops # {} /\ flow # {} /\ starts # {})

\* an update that stopped the service, installed and started the service
C7_Witness ==
  /\ ReturnedOk("update")
  /\ result.val = "updated"
  /\ CallsAt("stop_service") # {}
  /\ CallsAt("install_service") # {}
  /\ CallsAt("start_service") # {}

(***************************************************************************)
(* C8: in a successful update that installs, the Updating events are       *)
(* exactly 0.0, 0.2, 0.8, 1.0 in this order: 0.0 before stop_service, 0.2  *)
(* after stop_service and before every Downloading, Extracting and         *)
(* Installing event, 0.8 after all of these, 1.0 after start_service.      *)
(***************************************************************************)
IsUpdating(e) == IsProgress(e, "Updating")

UpdatingValues ==
  LET evs == SelectSeq(trace, IsUpdating) IN [i \in 1..Len(evs) |-> evs[i].progress]

NestedProgressAt ==
  ProgressAt("Downloading") \cup ProgressAt("Extracting") \cup ProgressAt("Installing")

\* the position of the k-th Updating event in the record
UpdatingAt(k) ==
  CHOOSE i \in ProgressAt("Updating") :
    Cardinality({j \in ProgressAt("Updating") : j <= i}) = k

C8_UpdatingEvents ==
  (ReturnedOk("update") /\ result.val = "updated") =>
    /\ UpdatingValues = <<0, 20, 80, 100>>
    /\ \A s \in CallsAt("stop_service") : UpdatingAt(1) < s /\ s < UpdatingAt(2)
    /\ CallsAt("stop_service") # {}
    /\ NestedProgressAt # {}
    /\ \A i \in NestedProgressAt : UpdatingAt(2) < i /\ i < UpdatingAt(3)
    /\ \A t \in CallsAt("start_service") : UpdatingAt(3) < t /\ t < UpdatingAt(4)
    /\ CallsAt("start_service") # {}
    /\ UpdatingAt(4) = Len(trace)

\* a successful update with its four Updating events
C8_Witness ==
  /\ ReturnedOk("update")
  /\ result.val = "updated"
  /\ Len(UpdatingValues) = 4
  /\ ProgressAt("Downloading") # {}

(***************************************************************************)
(* C9: after a successful uninstall the service is NotInstalled, the       *)
(* version marker is gone, the install directory does not exist,           *)
(* is_installed is false, current_version is absent and latest_version is  *)
(* as before; the directory is removed only after uninstall_service        *)
(* succeeded.                                                              *)
(***************************************************************************)
C9_UninstallResult ==
  /\ ReturnedOk("uninstall") =>
       /\ pre.is_installed
       /\ service = "NotInstalled"
       /\ ~marker.some
       /\ install_dir = "absent"
       /\ ~is_installed
       /\ ~current_version.some
       /\ latest_version = pre.latest_version
       /\ temp_files = pre.temp_files
  /\ (op.name = "uninstall"
        /\ (install_dir # pre.install_dir \/ CallsAt("remove_install_dir") # {})) =>
       \E u \in CallsAt("uninstall_service") :
         /\ trace[u].ok
         /\ \A r \in CallsAt("remove_install_dir") : u < r

\* a successful uninstall of an installation with a known version that
\* removed the directory
C9_Witness ==
  /\ ReturnedOk("uninstall")
  /\ pre.current_version.some
  /\ pre.install_dir = "full"
  /\ pre.marker.some
  /\ CallsAt("remove_install_dir") # {}

(***************************************************************************)
(* C10: every call of check_for_updates, install, update or uninstall      *)
(* ends by returning success or one error value; none ends abnormally.     *)
(* (Violated: update unwraps current_version, which its own check has set  *)
(* to absent when the platform reports no installed version.)              *)
(***************************************************************************)
C10_NoAbnormalEnd == pc # "aborted" /\ result.status # "panic"

(***************************************************************************)
(* C11: the release get_latest_release returns is the first one of the     *)
(* host's list, in the host's order, that is wanted (pre-releases wanted,   *)
(* or the release is not a pre-release); when the list holds no wanted      *)
(* release the call fails with NoReleaseFound.  Hence an operation that     *)
(* does not want pre-releases never selects one and never hands the tag of  *)
(* one to install_service.                                                  *)
(***************************************************************************)
\* the tags of the pre-releases the host may list
PrereleaseTags ==
  {l[i].tag_name : <<l, i>> \in {<<m, j>> \in ReleaseLists \X (1..2) :
                                   j <= Len(m) /\ m[j].prerelease}}

C11_FirstWanted ==
  [][LET wanted(i) == op.include_prerelease \/ ~releases[i].prerelease
         first(i)  == wanted(i) /\ \A j \in 1..(i - 1) : ~wanted(j)
         fetching  == pc = "get_latest_release" /\ trace' # trace
     IN /\ (fetching /\ trace'[Len(trace) + 1].ok) =>
             /\ (~\E i \in 1..Len(releases) : wanted(i)) =>
                  /\ pc' = "idle"
                  /\ result' = Ret("err", "NoReleaseFound")
                  /\ release' = release
             /\ trace'[Len(trace')].ok =>
                  \E i \in 1..Len(releases) : first(i) /\ release' = Some(releases[i])
             /\ (\E i \in 1..Len(releases) :
                   first(i) /\ tag_version(releases[i].tag_name).some)
                  => trace'[Len(trace')].ok
        /\ ~op'.include_prerelease =>
             /\ release'.some => ~release'.val.prerelease
             /\ \A i \in 1..Len(trace') :
                  IsCall(trace'[i], "install_service") => trace'[i].val \notin PrereleaseTags
             /\ (marker' # marker /\ marker'.some) => marker'.val \notin PrereleaseTags]_vars

\* a stable release was taken from behind a pre-release at the head of the list
C11_Witness ==
  /\ pc \in {"check_for_updates", "install_select"}
  /\ ~op.include_prerelease
  /\ Len(releases) = 2
  /\ releases[1].prerelease
  /\ release = Some(releases[2])

(***************************************************************************)
(* C12: on a known architecture select_asset returns the first asset, in   *)
(* the release's order, whose lower-cased name contains at least two of    *)
(* the architecture's patterns; when there is none, the first asset whose  *)
(* name contains at least one; when there is none either, it fails with    *)
(* NoMatchingAsset.  Only the asset list and the architecture decide:      *)
(* app-macos-arm64.zip alone fails on WindowsX64, and of                   *)
(* app-windows-x64.zip, app-linux-arm64.tar.gz the first is taken there.   *)
(***************************************************************************)
C12_SelectFirstBest ==
  (op.name = "select_asset" /\ detect(platform.os, platform.cpu).ok) =>
    LET assets  == release.val.assets
        pats    == asset_patterns(detect(platform.os, platform.cpu).val)
        hits(i) == Cardinality({k \in 1..Len(pats) :
                                  contains(to_lowercase(assets[i].name), pats[k])})
        strong  == {i \in 1..Len(assets) : hits(i) >= 2}
        weak    == {i \in 1..Len(assets) : hits(i) >= 1}
        winx64  == platform = [os |-> "windows", cpu |-> "x86_64"]
    IN /\ \A i \in strong : (\A j \in strong : i <= j) => result = Ret("ok", assets[i])
       /\ strong = {} =>
            \A i \in weak : (\A j \in weak : i <= j) => result = Ret("ok", assets[i])
       /\ weak = {} => result = Ret("err", "NoMatchingAsset")
       /\ (winx64 /\ assets = <<A_macos>>) => result = Ret("err", "NoMatchingAsset")
       /\ (winx64 /\ assets = <<A_windows, A_linux_arm>>) => result = Ret("ok", A_windows)

\* an asset with two matches was taken from behind one with a single match
C12_Witness ==
  /\ op.name = "select_asset"
  /\ platform = [os |-> "linux", cpu |-> "x86_64"]
  /\ release.val.assets = <<A_windows, A_linux>>
  /\ result = Ret("ok", A_linux)

(***************************************************************************)
(* C13: on Windows and on Linux, for a release that lists an asset named   *)
(* for the operating system next to assets for other platforms, in any     *)
(* order, select_asset succeeds and the name of the asset it returns       *)
(* contains the operating system's name.  (Violated: "darwin" contains     *)
(* "win", so app-darwin-x64.zip has two WindowsX64 matches and is returned *)
(* when it is listed before app-windows-x64.zip.)                          *)
(***************************************************************************)
C13_SelectedForPlatform ==
  LET os_name  == IF platform.os = "windows" THEN P_windows ELSE P_linux
      named(a) == contains(to_lowercase(a.name), os_name)
      assets   == release.val.assets
  IN (/\ op.name = "select_asset"
      /\ platform.os \in {"windows", "linux"}
      /\ \E i \in 1..Len(assets) : named(assets[i])
      /\ \E i \in 1..Len(assets) : ~named(assets[i]))
       => (result.status = "ok" /\ named(result.val))

(***************************************************************************)
(* C14: extracting a zip archive makes no file and no directory outside    *)
(* the target directory.  An entry whose stored path would leave it        *)
(* (../../evil.txt, an absolute path) is passed over without an error, and *)
(* every other entry gone through is extracted; extraction fails only on   *)
(* an I/O error.                                                           *)
(***************************************************************************)
C14_ZipStaysInside ==
  LET ups(e, k)   == Cardinality({j \in 1..k : e.path[j] = ".."})
      downs(e, k) == Cardinality({j \in 1..k : e.path[j] \notin {"..", "."}})
      leaves(e)   == e.rooted \/ \E k \in 1..Len(e.path) : ups(e, k) > downs(e, k)
      inside(p)   == ~p.rooted /\ p.up = 0
  IN op.name = "extract_zip" =>
       /\ \A p \in unpacked : inside(p)
       /\ \A i \in 1..entry :
            IF leaves(archive[i])
            THEN \E k \in CallsAt("skip_entry") : trace[k].val = i
            ELSE join(archive[i]) \in unpacked
       /\ (pc = "idle" /\ result.status = "err") => ~trace[Len(trace)].ok
       /\ (pc = "idle" /\ \A k \in 1..Len(trace) : trace[k].ok) =>
            (result = Ret("ok", "extracted") /\ entry = Len(archive))

\* ../../evil.txt was passed over and bin/app, listed after it, extracted
C14_Witness ==
  /\ ReturnedOk("extract_zip")
  /\ archive = <<E_evil, E_bin_app>>
  /\ unpacked = {Place(FALSE, 0, <<"bin">>), Place(FALSE, 0, <<"bin", "app">>)}

(***************************************************************************)
(* C15: extract_archive fails with UnsupportedArchiveFormat for every file *)
(* name that ends in none of .tar.gz, .tgz and .zip, and the Extracting    *)
(* 1.0 event is published exactly when the extraction succeeded: never     *)
(* for an unsupported format and never after a failed decode.              *)
(***************************************************************************)
C15_ExtractFormats ==
  LET name       == asset.val.name
      ends(suf)  == /\ Len(suf) <= Len(name)
                    /\ SubSeq(name, Len(name) - Len(suf) + 1, Len(name)) = suf
      known      == \/ ends(<<".", "t", "a", "r", ".", "g", "z">>)
                    \/ ends(<<".", "t", "g", "z">>)
                    \/ ends(<<".", "z", "i", "p">>)
      dir_made   == \E i \in CallsAt("create_install_dir") : trace[i].ok
      completed  == {i \in ProgressAt("Extracting") : trace[i].progress = 100}
  IN op.name = "extract_archive" =>
       /\ (pc = "idle" /\ ~known /\ dir_made)
            => result = Ret("err", "UnsupportedArchiveFormat")
       /\ (pc = "idle" /\ ~known) => result.status = "err"
       /\ completed # {} <=> ReturnedOk("extract_archive")
       /\ result.val = "UnsupportedArchiveFormat" => (~known /\ completed = {})
       /\ (\E i \in CallsAt("decode") : ~trace[i].ok) => completed = {}

\* a file named a.zip.sig was refused after the directory was made
C15_Witness ==
  /\ Returned("extract_archive")
  /\ asset.val.name = F_zip_sig
  /\ result = Ret("err", "UnsupportedArchiveFormat")
  /\ ProgressAt("Extracting") # {}
  /\ pre.install_dir = "absent"
  /\ install_dir = "empty"

(***************************************************************************)
(* C16: a download that succeeds publishes Downloading 1.0 as its last     *)
(* Downloading event, whatever the declared size and the bytes received;   *)
(* a download that fails publishes nothing after its last read or write    *)
(* and leaves the file it created in place.                                *)
(***************************************************************************)
C16_FinalDownloadEvent ==
  \A d \in CallsAt("download") :
    LET events  == {i \in ProgressAt("Downloading") : i < d}
        created == \E i \in CallsAt("file_create") : trace[i].ok
    IN IF trace[d].ok
       THEN /\ d - 1 \in events
            /\ trace[d - 1].progress = 100
            /\ \A i \in events : trace[i].progress \in 0..100
       ELSE /\ d - 1 \notin events
            /\ \A i \in events : IsCall(trace[i + 1], "read")
            /\ (created /\ pc = "idle") => download_path \in temp_files

\* two bytes arrived for an asset declared as one byte, and the download
\* succeeded
C16_Witness ==
  /\ \E d \in CallsAt("download") : trace[d].ok
  /\ asset.val.size = 1
  /\ downloaded = 2

(***************************************************************************)
(* C17: publishing a progress event never blocks and never fails the       *)
(* producer, with or without subscribers; the channel holds at most 100    *)
(* events, and a subscriber more than 100 events behind loses its oldest   *)
(* unread events.                                                          *)
(***************************************************************************)
C17_ChannelHoldsHundred ==
  /\ progress_tx.sent < MaxEvents => ENABLED broadcast_progress_send
  /\ result.status # "err"
  /\ held <= Capacity
  /\ \A s \in Subscribers :
       (receivers[s] # NotSubscribed /\ progress_tx.sent - receivers[s] > Capacity)
         => recv_ref(receivers[s], progress_tx.sent).kind = "Lagged"

(***************************************************************************)
(* C18: for every value given to StateProgress::new the stored progress    *)
(* lies in [0, 1]: a value below 0 is stored as 0, a value above 1 as 1,   *)
(* a value inside the range unchanged.                                     *)
(***************************************************************************)
C18_StoredInRange ==
  \A i \in CallsAt("StateProgress_new") :
    LET given  == trace[i].val
        stored == trace[i + 1].progress
    IN /\ stored \in 0..100
       /\ (given \in 0..100) => stored = given
       /\ (given # NaN /\ given < 0) => stored = 0
       /\ (given # NaN /\ given > 100) => stored = 100

\* the tags of the model that are no semantic version, with or without v
UnparseableTags == {T_latest}

(***************************************************************************)
(* C19: when the tag of the selected release is no semantic version,       *)
(* check_for_updates fails with VersionParseError, leaves is_installed,    *)
(* current_version and latest_version as they were before the call and     *)
(* does not ask the platform for the installed version.                    *)
(***************************************************************************)
C19_BadTagLeavesState ==
  LET wanted   == {i \in 1..Len(releases) :
                     op.include_prerelease \/ ~releases[i].prerelease}
      selected == CHOOSE i \in wanted : \A k \in wanted : i <= k
      fetched  == \E i \in CallsAt("fetch_releases") : trace[i].ok
  IN (/\ Returned("check_for_updates")
      /\ fetched
      /\ wanted # {}
      /\ releases[selected].tag_name \in UnparseableTags)
     => /\ result.status = "err"
        /\ result.val = "VersionParseError"
        /\ is_installed = pre.is_installed
        /\ current_version = pre.current_version
        /\ latest_version = pre.latest_version
        /\ CallsAt("get_installed_version") = {}

\* the check failed on the tag "latest" while an earlier check had left a
\* latest version and the platform holds an installation not yet seen
C19_Witness ==
  /\ Returned("check_for_updates")
  /\ result.status = "err"
  /\ result.val = "VersionParseError"
  /\ latest_version.some
  /\ latest_version = pre.latest_version
  /\ marker.some

\* the steps of install that follow the download
AfterDownload == {"extract_archive", "install_service", "install_update_state"}

(***************************************************************************)
(* C20: install rolls nothing back and cleans nothing up when it fails     *)
(* after the download: the archive stays in the temporary directory and    *)
(* what was extracted stays under the install path.  The archive is        *)
(* deleted only by the last step of an install whose download, extraction, *)
(* service registration and state update all succeeded.                    *)
(***************************************************************************)
C20_NoCleanupOnFailure ==
  [][op.name \in {"install", "update"} =>
       /\ (pc \in AfterDownload /\ pc' = "idle" /\ result'.status = "err")
            => /\ temp_files' = temp_files
               /\ download_path \in temp_files'
               /\ ~(install_dir \in {"partial", "full"}
                      /\ install_dir' \in {"absent", "empty"})
               /\ pc # "extract_archive" => (install_dir = "full" /\ install_dir' = "full")
       /\ (\E f \in temp_files : f \notin temp_files')
            => /\ pc = "install_cleanup"
               /\ temp_files' = temp_files \ {download_path}
               /\ result'.status # "err"
               /\ \A step \in {"download", "extract", "update_state"} :
                    \E i \in CallsAt(step) : trace[i].ok
               /\ \E i \in CallsAt("install_service") : trace[i].ok
  ]_vars

\* an install into a fresh directory failed at install_service: the
\* archive and the extracted files are still there
C20_Witness ==
  /\ Returned("install")
  /\ result.status = "err"
  /\ result.val = "ServiceControlError"
  /\ \E i \in CallsAt("install_service") : ~trace[i].ok
  /\ pre.install_dir = "absent"
  /\ install_dir = "full"
  /\ download_path \notin pre.temp_files
  /\ download_path \in temp_files

InstallCalls ==
  {"fetch_releases", "latest_release", "select_asset", "create_temp_dir", "http_get",
   "file_create", "read", "write", "download", "create_install_dir", "decode", "extract",
   "install_service", "remove_archive"}

(***************************************************************************)
(* C22: update does not recover when it fails part-way.  When stop_service *)
(* succeeded and the install flow then fails, update returns that error,   *)
(* start_service is not called, the service stays stopped and neither      *)
(* Updating 0.8 nor Updating 1.0 is published.  Updating 1.0 is published  *)
(* only when stop_service, the install flow and start_service succeeded.   *)
(***************************************************************************)
C22_UpdateNoRecovery ==
  op.name = "update" =>
    LET stops    == {i \in CallsAt("stop_service") : trace[i].ok}
        failed   == {i \in 1..Len(trace) :
                       /\ trace[i].kind = "call"
                       /\ trace[i].name \in InstallCalls
                       /\ ~trace[i].ok
                       /\ \E k \in stops : k < i}
        at(p)    == {i \in ProgressAt("Updating") : trace[i].progress = p}
    IN /\ failed # {}
            => /\ pc = "idle"
               /\ result.status = "err"
               /\ result.val \in {"NetworkError", "NoReleaseFound", "VersionParseError",
                                   "NoMatchingAsset", "UnsupportedPlatform", "IOError",
                                   "UnsupportedArchiveFormat", "ServiceControlError"}
               /\ CallsAt("start_service") = {}
               /\ service = "Stopped"
               /\ at(80) = {}
               /\ at(100) = {}
       /\ at(100) # {}
            => /\ stops # {}
               /\ \E i \in CallsAt("remove_archive") : trace[i].ok
               /\ \E i \in CallsAt("start_service") : trace[i].ok
               /\ \A i \in 1..Len(trace) : trace[i].kind = "call" => trace[i].ok
               /\ ReturnedOk("update")

\* an update stopped a running service and then failed while extracting
C22_Witness ==
  /\ Returned("update")
  /\ result.status = "err"
  /\ pre.service = "Running"
  /\ service = "Stopped"
  /\ \E i \in CallsAt("stop_service") : trace[i].ok
  /\ \E i \in CallsAt("extract") : ~trace[i].ok

\* the place of a state in the order of the phases of install
PhaseRank(state) ==
  CASE state = "Downloading" -> 1
    [] state = "Extracting"  -> 2
    [] state = "Installing"  -> 3

(***************************************************************************)
(* C23: the progress events of an install are published phase by phase     *)
(* and never interleave: the Downloading events, from 0.0 to 1.0, then     *)
(* Extracting 0.0 and 1.0, then Installing 0.0 and 1.0; a later phase      *)
(* begins only when the earlier one published 1.0, and Installing 1.0 is   *)
(* published only after install_service succeeded.                         *)
(***************************************************************************)
C23_PhaseOrder ==
  op.name \in {"install", "update"} =>
    LET events  == {i \in 1..Len(trace) :
                      trace[i].kind = "progress" /\ trace[i].state # "Updating"}
        of(st)  == {i \in events : trace[i].state = st}
        first(S) == CHOOSE i \in S : \A k \in S : i <= k
        last(S)  == CHOOSE i \in S : \A k \in S : k <= i
        whole(st) == /\ of(st) # {}
                     /\ trace[first(of(st))].progress = 0
                     /\ trace[last(of(st))].progress = 100
    IN /\ \A i, k \in events :
            i < k => PhaseRank(trace[i].state) <= PhaseRank(trace[k].state)
       /\ \A st \in {"Downloading", "Extracting", "Installing"} :
            of(st) # {} => trace[first(of(st))].progress = 0
       /\ of("Extracting") # {} => whole("Downloading")
       /\ of("Installing") # {} => whole("Extracting")
       /\ \A st \in {"Extracting", "Installing"} :
            /\ Cardinality(of(st)) <= 2
            /\ Cardinality(of(st)) = 2 => trace[last(of(st))].progress = 100
       /\ \A i \in of("Installing") :
            trace[i].progress = 100
              => (IsCall(trace[i - 1], "install_service") /\ trace[i - 1].ok)
       /\ (pc = "idle" /\ result.status = "ok" /\ of("Downloading") # {})
            => (whole("Downloading") /\ whole("Extracting") /\ whole("Installing"))

\* an install ran through all three phases with a download in two chunks
C23_Witness ==
  /\ ReturnedOk("install")
  /\ Cardinality(ProgressAt("Downloading")) = 4
  /\ Cardinality(ProgressAt("Extracting")) = 2
  /\ Cardinality(ProgressAt("Installing")) = 2

(***************************************************************************)
(* C24: during one download the Downloading values never decrease.  With   *)
(* a positive declared size every chunk written is followed by one event   *)
(* carrying bytes so far / declared size, clamped to [0, 1]; with a        *)
(* declared size of zero exactly two events are published, 0.0 and 1.0,    *)
(* whatever the number of chunks.                                          *)
(***************************************************************************)
C24_DownloadProgress ==
  LET events  == ProgressAt("Downloading")
      chunks  == {i \in CallsAt("write") : trace[i].ok}
      done    == \E i \in CallsAt("download") : trace[i].ok
      closing == IF done THEN 1 ELSE 0
      ratio   == (downloaded * 100) \div asset.val.size
      share   == IF ratio > 100 THEN 100 ELSE ratio
  IN events # {} =>
       /\ \A i, k \in events : i < k => trace[i].progress <= trace[k].progress
       /\ asset.val.size > 0 =>
            /\ \A w \in chunks : w + 1 \in events
            /\ Cardinality(events) = 1 + Cardinality(chunks) + closing
            /\ \A w \in chunks :
                 (\A v \in chunks : v <= w) => trace[w + 1].progress = share
       /\ asset.val.size = 0 =>
            /\ Cardinality(events) = 1 + closing
            /\ \A w \in chunks : w + 1 \notin events
            /\ done => {trace[i].progress : i \in events} = {0, 100}

\* two chunks arrived for an asset of unknown size and the download succeeded
C24_Witness ==
  /\ \E i \in CallsAt("download") : trace[i].ok
  /\ asset.val.size = 0
  /\ Cardinality({i \in CallsAt("write") : trace[i].ok}) = 2
  /\ Cardinality(ProgressAt("Downloading")) = 2

(***************************************************************************)
(* C25: in every state that calls of check_for_updates, install, update    *)
(* and uninstall, successful or failed, lead to, is_installed is true      *)
(* exactly when current_version is present.                                *)
(***************************************************************************)
C25_InstalledIffVersion == is_installed <=> current_version.some

\* a check found the installation gone: the flag and the version were
\* both reset
C25_Witness ==
  /\ ReturnedOk("check_for_updates")
  /\ pre.is_installed
  /\ pre.current_version.some
  /\ ~is_installed
  /\ ~current_version.some

(***************************************************************************)
(* C26: whenever install returns an error, whichever step failed, the      *)
(* manager's is_installed and current_version are what they were before    *)
(* the call.  (Violated: the deletion of the archive is attempted after    *)
(* both fields were set.)                                                  *)
(***************************************************************************)
C26_FailedInstallKeepsState ==
  (Returned("install") /\ result.status = "err")
    => /\ is_installed = pre.is_installed
       /\ current_version = pre.current_version

(***************************************************************************)
(* C27: a successful update never lowers the installed version: when       *)
(* update returns success, current_version is not below the version the    *)
(* platform reported at update's check, and above it when an installation  *)
(* was performed, also when the host's listing changes between the check   *)
(* and the fetch of the nested install.  (Violated: install selects from   *)
(* the listing it fetches itself.)                                         *)
(***************************************************************************)
C27_UpdateNeverLowers ==
  ReturnedOk("update") =>
    /\ Reported.some
    /\ current_version.some
    /\ ~VersionLess(current_version.val, Reported.val)
    /\ result.val = "updated" => VersionLess(Reported.val, current_version.val)

\* the manager and the platform, at the call of the running operation,
\* were as a successful install leaves them, and the release the
\* operation's check selected is the one that install had installed
AsInstalled ==
  /\ pre.is_installed
  /\ pre.current_version.some
  /\ pre.current_version = pre.latest_version
  /\ pre.marker.some
  /\ tag_version(pre.marker.val) = pre.current_version
  /\ Cardinality(CallsAt("fetch_releases")) = 1
  /\ release.some
  /\ release.val.tag_name = pre.marker.val

(***************************************************************************)
(* C28: install followed by a check is a fixed point.  A successful        *)
(* install leaves is_installed true, current_version equal to              *)
(* latest_version and the marker at the installed tag; a check that then   *)
(* selects the same release returns false and leaves all of this as it     *)
(* is, and an update returns success without stopping, reinstalling or     *)
(* starting the service.                                                   *)
(***************************************************************************)
C28_InstallThenCheck ==
  /\ ReturnedOk("install")
       => /\ is_installed
          /\ current_version.some
          /\ current_version = latest_version
          /\ marker = Some(release.val.tag_name)
          /\ tag_version(marker.val) = current_version
          /\ find_latest(releases, op.include_prerelease) = release
  /\ (ReturnedOk("check_for_updates") /\ AsInstalled)
       => /\ result.val = FALSE
          /\ is_installed
          /\ current_version = latest_version
          /\ current_version = pre.current_version
          /\ marker = pre.marker
  /\ (op.name = "update" /\ AsInstalled)
       => /\ pc \in {"check_for_updates", "update_decide", "idle"}
          /\ pc = "update_decide" => ~has_update
          /\ \A c \in {"stop_service", "start_service", "install_service", "download"} :
               CallsAt(c) = {}
          /\ (pc = "idle" /\ CallsAt("get_installed_version") # {}
                /\ (\A i \in CallsAt("get_installed_version") : trace[i].ok))
               => /\ result = Ret("ok", "up_to_date")
                  /\ service = pre.service
                  /\ marker = pre.marker
                  /\ current_version = pre.current_version
                  /\ is_installed

\* an update right after the installation of v2.0.0 found nothing to do
C28_Witness ==
  /\ ReturnedOk("update")
  /\ AsInstalled
  /\ pre.marker = Some(T_v2_0_0)
  /\ result.val = "up_to_date"
  /\ service = "Stopped"

(***************************************************************************)
(* C29: every run of perform_installation ends with the shared state       *)
(* completed, with success exactly when manager.install returned success,  *)
(* and the wizard on the Complete page.  (Violated: the Complete page is   *)
(* set only when the window can be reached from the installing task.)      *)
(***************************************************************************)
C29_ReachesComplete ==
  tasks.install = "done"
    => /\ installer_state.completed
       /\ installer_state.success <=> result.status = "ok"
       /\ ui.page = "Complete"

(***************************************************************************)
(* C30: once the installing task has marked the state completed after a    *)
(* successful install, the state keeps the status "Installation            *)
(* complete!" and the progress 1.0 under every interleaving with the       *)
(* listener task, and the progress shown never decreases.  (Violated: the  *)
(* listener writes the events it had not yet taken over the final state.)  *)
(***************************************************************************)
C30_CompleteStays ==
  /\ [](installer_state.completed /\ installer_state.success
          => installer_state.status = "Installation complete!" /\ installer_state.progress = 10000)
  /\ [][ui'.install_progress >= ui.install_progress]_vars

(***************************************************************************)
(* C31: when perform_installation is called with install_as_service =      *)
(* false it only downloads and extracts: install_service is never invoked  *)
(* and no service is registered with the platform.  (Violated: the         *)
(* argument never reaches the manager, whose install always installs the   *)
(* service.)                                                               *)
(***************************************************************************)
C31_NoServiceUnlessAsked ==
  (tasks.install \in {"installing", "returned", "done"} /\ ~tasks.install_as_service)
    => /\ CallsAt("install_service") = {}
       /\ service = pre.service
       /\ marker = pre.marker

====
